---- MODULE Spec2Model ----
(***************************************************************************)
(* A model of the step-wise evaluator of src/src/Interpreter.ts: the frame *)
(* stack (stateStack, index 1 = stateStack[0] = the top frame), the scope  *)
(* arena, the Program body that appendCode extends, the value field, the   *)
(* paused_ gate of asynchronous natives, and the host-facing operations    *)
(* step(), run(), appendCode() and the two promise continuations.          *)
(***************************************************************************)
EXTENDS Integers, Sequences, FiniteSets, TLC

VARIABLES
    \* the interpreter; ast holds the nodes of the parsed sources by id (the
    \* statements of the live Program node are kept apart, in body)
    ast, stateStack, scopes, body, value, paused_,
    \* the host promise of the asynchronous native in flight: "none", "pending"
    promise,
    \* history: the top-level statements the Program frame has dispatched
    log,
    \* history of the last host operation: which one, what it returned
    \* ("true", "false", "ok", or "throw" for a host exception), the host
    \* exception, its argument, and the value the last interpreter-level
    \* throw carried (Absent: no throw)
    lastOp, lastRet, lastExc, lastVal, lastCode, lastThrown,
    \* history: the interpreter when the last host operation was called
    preDone, prePaused, preTop, preTry,
    \* history: run() has returned false and appendCode has not succeeded since
    ranToEnd,
    \* history: the number of successful appendCode calls
    appended,
    \* history: the invocations of host-native functions, in order: the
    \* function's name and the arguments it was applied to
    calls,
    \* the data object the property operations work on, and the history of
    \* the last of them: the operation, the property name, the error classes
    \* it threw, and of a descriptor whether it is one and configurable
    obj, objOp,
    \* history: the names for which a defineProperty with configurable false
    \* has returned without throwing
    sealed,
    \* the function objects whose isGetter flag is set
    isGetter,
    \* history: the nodes whose frames were pushed on the stack, in order
    \* (kept only by the steps of the control-flow programs)
    trace,
    \* the objects the interpreter has created, by number, and what the last
    \* operation on them was and returned
    heap, ret

vars ==
    <<ast, stateStack, scopes, body, value, paused_, promise, log, lastOp, lastRet,
      lastExc, lastVal, lastCode, lastThrown, preDone, prePaused, preTop,
      preTry, ranToEnd, appended, calls, obj, objOp, sealed, isGetter, trace,
      heap, ret>>

(***************************************************************************)
(* Bounds.                                                                 *)
(***************************************************************************)
\* how many times the host may call appendCode successfully
MaxAppend == 2

\* the host stops stepping once the arena holds more scopes than this (a loop
\* whose body calls a function makes a scope per iteration)
MaxScopes == 4

(***************************************************************************)
(* Values.  Every interpreter value is a record of one shape:              *)
(*   k  the type tag (Primitive.type / JsObject.type, "absent" for a JS    *)
(*      undefined or null field, i.e. no interpreter value at all)         *)
(*   n  the numeric payload, s the string payload (message of an error     *)
(*      object), c the name of the constructor (parent) or of the function,*)
(*   p  the captured parentScope of a function made from an AST node, and  *)
(*      for such a function n is the node;                                 *)
(*   boundThis_, boundArgs_  what Function.prototype.bind pins on the      *)
(*      clone it makes (<<>>: no boundThis_).                              *)
(***************************************************************************)
Val(k, n, s, c, p) ==
    [k |-> k, n |-> n, s |-> s, c |-> c, p |-> p,
     boundThis_ |-> <<>>, boundArgs_ |-> <<>>]

Absent == Val("absent", 0, "", "", 0)

UNDEFINED == Val("undefined", 0, "", "", 0)

Num(i) == Val("number", i, "", "Number", 0)

Str(x) == Val("string", 0, x, "String", 0)

\* createObject(parent): a JsObject whose parent is the constructor named c
Obj(c) == Val("object", 0, "", c, 0)

\* createNativeFunction / createAsyncFunction: s tells the body kind
NativeFn(name) == Val("function", 0, "native", name, 0)

\* the function eval: `func.eval = true`
EvalFn == Val("function", 0, "eval", "eval", 0)

AsyncFn(name) == Val("function", 0, "async", name, 0)

\* createFunction(node, scope)
createFunction(node, scope) == Val("function", node, "node", "", scope)

\* the scope object sc seen as a value (thisExpression of the Program frame)
ScopeVal(sc) == Val("object", sc, "", "Scope", 0)

ERROR == NativeFn("Error")

TYPE_ERROR == NativeFn("TypeError")

REFERENCE_ERROR == NativeFn("ReferenceError")

ErrorSubclasses ==
    {"EvalError", "RangeError", "ReferenceError", "SyntaxError", "TypeError", "URIError"}

\* String(data) for the numbers the programs use
NumToString(i) ==
    CASE i = 0 -> "0" [] i = 1 -> "1" [] i = 5 -> "5" [] i = 7 -> "7"
      [] i = 8 -> "8" [] i = 10 -> "10" [] OTHER -> "NaN"

\* Primitive.toString / JsObject.toString
toString(v) ==
    CASE v.k = "number" -> NumToString(v.n)
      [] v.k = "string" -> v.s
      [] v.k = "undefined" -> "undefined"
      [] OTHER -> "[" \o v.k \o "]"

\* utils.isa(child, ERROR): the object's parent is ERROR, or the prototype of
\* its parent was made by createObject(ERROR) (the six subclasses)
isaError(v) == v.k = "object" /\ v.c \in ErrorSubclasses \cup {"Error"}

(***************************************************************************)
(* Host exceptions: what a throw statement of the implementation hands to  *)
(* the host.  type "string" is a thrown bare string.                       *)
(***************************************************************************)
Exc(type, msg) == [type |-> type, msg |-> msg]

NoExc == Exc("", "")

(***************************************************************************)
(* The syntax trees.  A node is a record of one shape; children are node   *)
(* numbers (0 = null).  end tells whether the node carries a non-zero end  *)
(* position: acorn gives every node of a parsed source one, except the     *)
(* Program node of the empty source, whose end is 0.                       *)
(***************************************************************************)
Node(type, a, b, c, kids, name, val) ==
    [type |-> type, end |-> TRUE, a |-> a, b |-> b, c |-> c, kids |-> kids,
     name |-> name, val |-> val]

Lit(v) == Node("Literal", 0, 0, 0, <<>>, "", v)

Id(name) == Node("Identifier", 0, 0, 0, <<>>, name, Absent)

ExprStmt(e) == Node("ExpressionStatement", e, 0, 0, <<>>, "", Absent)

Assign(left, right) == Node("AssignmentExpression", left, right, 0, <<>>, "=", Absent)

Call(callee, args) == Node("CallExpression", callee, 0, 0, args, "", Absent)

New(callee, args) == Node("NewExpression", callee, 0, 0, args, "", Absent)

Block(stmts) == Node("BlockStatement", 0, 0, 0, stmts, "", Absent)

Try(block, handler, finalizer) == Node("TryStatement", block, handler, finalizer, <<>>, "", Absent)

Catch(param, blk) == Node("CatchClause", blk, 0, 0, <<>>, param, Absent)

Throw(arg) == Node("ThrowStatement", arg, 0, 0, <<>>, "", Absent)

Return(arg) == Node("ReturnStatement", arg, 0, 0, <<>>, "", Absent)

Break(label) == Node("BreakStatement", 0, 0, 0, <<>>, label, Absent)

Continue(label) == Node("ContinueStatement", 0, 0, 0, <<>>, label, Absent)

While(test, blk) == Node("WhileStatement", test, blk, 0, <<>>, "", Absent)

Labeled(label, stmt) == Node("LabeledStatement", stmt, 0, 0, <<>>, label, Absent)

\* function name() { body }: a = body, kids = params (none in these programs)
FuncDecl(name, blk) == Node("FunctionDeclaration", blk, 0, 0, <<>>, name, Absent)

\* var declarations: kids = the declarators
VarDecl(declarations) == Node("VariableDeclaration", 0, 0, 0, declarations, "", Absent)

\* name = init (init = 0: none)
VarDeclarator(name, init) == Node("VariableDeclarator", init, 0, 0, <<>>, name, Absent)

This == Node("ThisExpression", 0, 0, 0, <<>>, "", Absent)

\* object.property, or object[property] when computed
Member(object, property, computed) ==
    Node("MemberExpression", object, property, 0, <<>>,
         IF computed THEN "computed" ELSE "", Absent)

\* for (init; test; update) body: 0 for a part that is left out
For(init, test, update, blk) ==
    Node("ForStatement", init, test, update, <<blk>>, "", Absent)

\* switch (discriminant) { cases }
Switch(discriminant, cases) ==
    Node("SwitchStatement", discriminant, 0, 0, cases, "", Absent)

\* case test: consequent (test = 0: default)
SwitchCase(test, consequent) ==
    Node("SwitchCase", test, 0, 0, consequent, "", Absent)

\* the Program node of a parsed, non-empty source
ProgramNode == 1

\* the Program node of the empty source: start = end = 0
EmptyProgramNode == 2

AST ==
    << Node("Program", 0, 0, 0, <<>>, "", Absent),                     \*  1
       [Node("Program", 0, 0, 0, <<>>, "", Absent) EXCEPT !.end = FALSE], \*  2
       Lit(Num(10)),            \*  3  10
       ExprStmt(3),             \*  4  10;
       Id("x"),                 \*  5  x
       Lit(Num(5)),             \*  6  5
       Assign(5, 6),            \*  7  x = 5
       ExprStmt(7),             \*  8  x = 5;
       ExprStmt(5),             \*  9  x;
       Id("af"),                \* 10  af
       Call(10, <<>>),          \* 11  af()
       ExprStmt(11),            \* 12  af();
       Id("e"),                 \* 13  e
       ExprStmt(13),            \* 14  e;
       Block(<<14>>),           \* 15  { e; }
       Catch("e", 15),          \* 16  catch (e) { e; }
       Block(<<12>>),           \* 17  { af(); }
       Try(17, 16, 0),          \* 18  try { af(); } catch (e) { e; }
       Id("Error"),             \* 19  Error
       Lit(Str("x")),           \* 20  "x"
       New(19, <<20>>),         \* 21  new Error("x")
       Throw(21),               \* 22  throw new Error("x");
       Throw(6),                \* 23  throw 5;
       Block(<<22>>),           \* 24  { throw new Error("x"); }
       Block(<<4>>),            \* 25  { 10; }
       Try(24, 0, 25),          \* 26  try { throw new Error("x"); } finally { 10; }
       Block(<<26>>),           \* 27
       Try(27, 16, 0),          \* 28  try { try {..} finally {..} } catch (e) { e; }
       Block(<<23>>),           \* 29  { throw 5; }
       Try(29, 16, 0),          \* 30  try { throw 5; } catch (e) { e; }
       Id("u"),                 \* 31  u
       ExprStmt(31),            \* 32  u;
       Block(<<32>>),           \* 33  { u; }
       Try(33, 16, 0),          \* 34  try { u; } catch (e) { e; }
       Break(""),               \* 35  break;
       Block(<<35>>),           \* 36  { break; }
       Catch("e", 25),          \* 37  catch (e) { 10; }
       Try(36, 37, 0),          \* 38  try { break; } catch (e) { 10; }
       Continue(""),            \* 39  continue;
       Block(<<39>>),           \* 40  { continue; }
       Try(40, 37, 0),          \* 41  try { continue; } catch (e) { 10; }
       Return(6),               \* 42  return 5;
       Block(<<42>>),           \* 43  { return 5; }
       Try(43, 37, 0),          \* 44  try { return 5; } catch (e) { 10; }
       Lit(Num(1)),             \* 45  1
       Block(<<38>>),           \* 46
       While(45, 46),           \* 47  while (1) { try { break; } catch (e) { 10; } }
       FuncDecl("f", 43),       \* 48  function f() { return 5; }
       Id("f"),                 \* 49  f
       Call(49, <<>>),          \* 50  f()
       ExprStmt(50),            \* 51  f();
       Assign(5, 11),           \* 52  x = af()
       ExprStmt(52),            \* 53  x = af();
       FuncDecl("g", 36),       \* 54  function g() { break; }
       Id("g"),                 \* 55  g
       Call(55, <<>>),          \* 56  g()
       ExprStmt(56),            \* 57  g();
       Block(<<57>>),           \* 58  { g(); }
       Try(58, 37, 0),          \* 59  try { g(); } catch (e) { 10; }
       Block(<<59>>),           \* 60
       While(45, 60),           \* 61  while (1) { try { g(); } catch (e) { 10; } }
       Break("M"),              \* 62  break M;
       Block(<<62>>),           \* 63  { break M; }
       Try(63, 37, 0),          \* 64  try { break M; } catch (e) { 10; }
       Block(<<64>>),           \* 65
       While(45, 65),           \* 66  while (1) { try { break M; } catch (e) { 10; } }
       Labeled("L", 66),        \* 67  L: while (1) { ... break M ... }
       Id("nf"),                \* 68  nf
       Call(68, <<6>>),         \* 69  nf(5)
       ExprStmt(69),            \* 70  nf(5);
       Block(<<23>>),           \* 71  { throw 5; }
       FuncDecl("h", 71),       \* 72  function h() { throw 5; }
       Id("h"),                 \* 73  h
       Call(73, <<>>),          \* 74  h()
       ExprStmt(74),            \* 75  h();
       Block(<<75>>),           \* 76  { h(); }
       Try(76, 16, 0),          \* 77  try { h(); } catch (e) { e; }
       Block(<<30>>),           \* 78  { try { throw 5; } catch (e) { e; } }
       Try(78, 37, 0),          \* 79  try { try { throw 5; } catch (e) { e; } } catch (e) { 10; }
       Call(68, <<6, 3>>),      \* 80  nf(5, 10)
       ExprStmt(80),            \* 81  nf(5, 10);
       Lit(Str("use strict")),  \* 82  'use strict'
       ExprStmt(82),            \* 83  'use strict';
       Assign(31, 6),           \* 84  u = 5
       ExprStmt(84),            \* 85  u = 5;
       Block(<<85>>),           \* 86  { u = 5; }
       FuncDecl("f", 86),       \* 87  function f() { u = 5; }
       Try(86, 16, 0),          \* 88  try { u = 5; } catch (e) { e; }
       Block(<<83, 85>>),       \* 89  { 'use strict'; u = 5; }
       FuncDecl("f", 89),       \* 90  function f() { 'use strict'; u = 5; }
       FuncDecl("f", 25),       \* 91  function f() { 10; }
       Block(<<>>),             \* 92  { }
       While(50, 92),           \* 93  while (f()) { }
       ExprStmt(6)              \* 94  5;
    >>

\* The programs the host may construct the interpreter with: the Program node
\* and its body.
Programs ==
    { [node |-> EmptyProgramNode, body |-> <<>>],   \* (empty source)
      [node |-> ProgramNode, body |-> <<4>>],       \* 10;
      [node |-> ProgramNode, body |-> <<8, 9>>],    \* x = 5; x;
      [node |-> ProgramNode, body |-> <<12>>],      \* af();
      [node |-> ProgramNode, body |-> <<53, 9>>],   \* x = af(); x;
      [node |-> ProgramNode, body |-> <<12, 12>>],  \* af(); af();
      [node |-> ProgramNode, body |-> <<18, 4>>],   \* try { af(); } catch (e) { e; } 10;
      [node |-> ProgramNode, body |-> <<22>>],      \* throw new Error("x");
      [node |-> ProgramNode, body |-> <<23>>],      \* throw 5;
      [node |-> ProgramNode, body |-> <<28, 4>>],   \* try { try {throw..} finally {10;} } catch (e) { e; } 10;
      [node |-> ProgramNode, body |-> <<30>>],      \* try { throw 5; } catch (e) { e; }
      [node |-> ProgramNode, body |-> <<34, 32>>],  \* try { u; } catch (e) { e; } u;
      [node |-> ProgramNode, body |-> <<38>>],      \* try { break; } catch (e) { 10; }
      [node |-> ProgramNode, body |-> <<41>>],      \* try { continue; } catch (e) { 10; }
      [node |-> ProgramNode, body |-> <<44>>],      \* try { return 5; } catch (e) { 10; }
      [node |-> ProgramNode, body |-> <<47, 4>>],   \* while (1) { try { break; } catch (e) { 10; } } 10;
      [node |-> ProgramNode, body |-> <<48, 51>>],  \* function f() { return 5; } f();
      [node |-> ProgramNode, body |-> <<54, 61>>],  \* function g() { break; } while (1) { try { g(); } catch (e) { 10; } }
      [node |-> ProgramNode, body |-> <<67>>],      \* L: while (1) { try { break M; } catch (e) { 10; } }
      [node |-> ProgramNode, body |-> <<70>>],      \* nf(5);
      [node |-> ProgramNode, body |-> <<81>>],      \* nf(5, 10);
      [node |-> ProgramNode, body |-> <<72, 77, 4>>], \* function h() { throw 5; } try { h(); } catch (e) { e; } 10;
      [node |-> ProgramNode, body |-> <<79>>],      \* try { try { throw 5; } catch (e) { e; } } catch (e) { 10; }
      [node |-> ProgramNode, body |-> <<83, 85>>],  \* 'use strict'; u = 5;
      [node |-> ProgramNode, body |-> <<87, 51, 32>>], \* function f() { u = 5; } f(); u;
      [node |-> ProgramNode, body |-> <<83, 88, 4>>],  \* 'use strict'; try { u = 5; } catch (e) { e; } 10;
      [node |-> ProgramNode, body |-> <<90, 51>>],  \* function f() { 'use strict'; u = 5; } f();
      [node |-> ProgramNode, body |-> <<94, 91, 93>>], \* 5; function f() { 10; } while (f()) { }
      [node |-> ProgramNode, body |-> <<94, 91, 51>>]  \* 5; function f() { 10; } f();
    }

\* What the host may pass to appendCode: a Program (its body), or something
\* that is not a Program node.
AppendCodes ==
    { [program |-> TRUE, body |-> <<9>>],       \* x;
      [program |-> TRUE, body |-> <<8, 4>>],    \* x = 5; 10;
      [program |-> TRUE, body |-> <<>>],        \* (empty source)
      [program |-> FALSE, body |-> <<4>>] }     \* an ExpressionStatement node

\* The nodes of the programs that exercise the control flow: they follow the
\* nodes of AST in the table.
CtlNodes ==
    << Lit(Num(0)),                          \* 95  0
       Lit(Num(7)),                          \* 96  7
       Lit(Num(8)),                          \* 97  8
       ExprStmt(96),                         \* 98  7;
       ExprStmt(97),                         \* 99  8;
       Id("y"),                              \* 100  y
       Id("z"),                              \* 101  z
       Assign(5, 45),                        \* 102  x = 1
       Assign(5, 95),                        \* 103  x = 0
       ExprStmt(102),                        \* 104  x = 1;
       Id("x"),                              \* 105  x (the test of the for statements)
       Block(<<4>>),                         \* 106  { 10; }
       For(102, 105, 103, 106),              \* 107  for (x = 1; x; x = 0) { 10; }
       Block(<<39, 4>>),                     \* 108  { continue; 10; }
       For(102, 105, 103, 108),              \* 109  for (x = 1; x; x = 0) { continue; 10; }
       Block(<<35, 4>>),                     \* 110  { break; 10; }
       For(0, 0, 0, 110),                    \* 111  for (;;) { break; 10; }
       For(103, 105, 102, 106),              \* 112  for (x = 0; x; x = 1) { 10; }
       Assign(101, 45),                      \* 113  z = 1
       ExprStmt(113),                        \* 114  z = 1;
       Assign(5, 6),                         \* 115  x = 5
       Assign(5, 100),                       \* 116  x = y
       Assign(100, 101),                     \* 117  y = z
       ExprStmt(117),                        \* 118  y = z;
       Assign(101, 95),                      \* 119  z = 0
       ExprStmt(119),                        \* 120  z = 0;
       Block(<<118, 120>>),                  \* 121  { y = z; z = 0; }
       For(115, 105, 116, 121),              \* 122  for (x = 5; x; x = y) { y = z; z = 0; }
       Lit(Num(5)),                          \* 123  5 (a discriminant)
       Lit(Num(10)),                         \* 124  10 (a discriminant)
       Lit(Num(1)),                          \* 125  1 (a test)
       Lit(Num(5)),                          \* 126  5 (a test)
       Lit(Num(10)),                         \* 127  10 (a test)
       SwitchCase(125, <<4>>),               \* 128  case 1: 10;
       SwitchCase(126, <<98, 99>>),          \* 129  case 5: 7; 8;
       SwitchCase(0, <<94>>),                \* 130  default: 5;
       Switch(123, <<128, 129, 130>>),       \* 131  switch (5) { case 1: 10; case 5: 7; 8; default: 5; }
       SwitchCase(126, <<98, 35>>),          \* 132  case 5: 7; break;
       SwitchCase(0, <<99>>),                \* 133  default: 8;
       Switch(123, <<128, 132, 133>>),       \* 134  switch (5) { case 1: 10; case 5: 7; break; default: 8; }
       SwitchCase(0, <<98>>),                \* 135  default: 7;
       SwitchCase(126, <<99>>),              \* 136  case 5: 8;
       Switch(123, <<128, 135, 136>>),       \* 137  switch (5) { case 1: 10; default: 7; case 5: 8; }
       SwitchCase(125, <<98>>),              \* 138  case 1: 7;
       Switch(124, <<138, 136>>),            \* 139  switch (10) { case 1: 7; case 5: 8; }
       SwitchCase(127, <<99>>),              \* 140  case 10: 8;
       Switch(69, <<138, 140>>),             \* 141  switch (nf(5)) { case 1: 7; case 10: 8; }
       Break("L"),                           \* 142  break L;
       Block(<<142>>),                       \* 143  { break L; }
       While(45, 143),                       \* 144  while (1) { break L; }
       Block(<<144, 4>>),                    \* 145  { while (1) { break L; } 10; }
       While(45, 145),                       \* 146  while (1) { while (1) { break L; } 10; }
       Labeled("L", 146),                    \* 147  L: while (1) { while (1) { break L; } 10; }
       Continue("L"),                        \* 148  continue L;
       ExprStmt(103),                        \* 149  x = 0;
       Block(<<149, 148>>),                  \* 150  { x = 0; continue L; }
       For(0, 0, 0, 150),                    \* 151  for (;;) { x = 0; continue L; }
       Block(<<151, 4>>),                    \* 152  { for (;;) { x = 0; continue L; } 10; }
       While(5, 152),                        \* 153  while (x) { for (;;) { x = 0; continue L; } 10; }
       Labeled("L", 153),                    \* 154  L: while (x) { ... }
       SwitchCase(126, <<39>>),              \* 155  case 5: continue;
       Switch(123, <<155>>),                 \* 156  switch (5) { case 5: continue; }
       Block(<<156, 4>>),                    \* 157  { switch (5) { case 5: continue; } 10; }
       For(102, 105, 103, 157),              \* 158  for (x = 1; x; x = 0) { switch (5) { case 5: continue; } 10; }
       Block(<<57>>),                        \* 159  { g(); }
       For(102, 105, 103, 159),              \* 160  for (x = 1; x; x = 0) { g(); }
       Block(<<39>>),                        \* 161  { continue; }
       FuncDecl("g", 161),                   \* 162  function g() { continue; }
       Block(<<142, 4>>),                    \* 163  { break L; 10; }
       Labeled("L", 163),                    \* 164  L: { break L; 10; }
       Assign(5, 50),                        \* 165  x = f()
       ExprStmt(165),                        \* 166  x = f();
       Block(<<42, 4>>),                     \* 167  { return 5; 10; }
       FuncDecl("f", 167),                   \* 168  function f() { return 5; 10; }
       Return(0),                            \* 169  return;
       Block(<<169, 4>>),                    \* 170  { return; 10; }
       FuncDecl("f", 170),                   \* 171  function f() { return; 10; }
       Return(96),                           \* 172  return 7;
       Block(<<172>>),                       \* 173  { return 7; }
       While(45, 173),                       \* 174  while (1) { return 7; }
       Block(<<174, 4>>),                    \* 175  { while (1) { return 7; } 10; }
       FuncDecl("f", 175),                   \* 176  function f() { while (1) { return 7; } 10; }
       Block(<<51, 172>>),                   \* 177  { f(); return 7; }
       FuncDecl("g", 177),                   \* 178  function g() { f(); return 7; }
       Assign(5, 56),                        \* 179  x = g()
       ExprStmt(179),                        \* 180  x = g();
       Id("F"),                              \* 181  F
       New(181, <<>>),                       \* 182  new F()
       Assign(5, 182),                       \* 183  x = new F()
       ExprStmt(183),                        \* 184  x = new F();
       FuncDecl("F", 92),                    \* 185  function F() { }
       Block(<<42>>),                        \* 186  { return 5; }
       FuncDecl("F", 186),                   \* 187  function F() { return 5; }
       Return(21),                           \* 188  return new Error("x");
       Block(<<188>>),                       \* 189  { return new Error(...); }
       FuncDecl("F", 189),                   \* 190  function F() { return new Error("x"); }
       Return(49),                           \* 191  return f;
       Block(<<191>>),                       \* 192  { return f; }
       FuncDecl("F", 192),                   \* 193  function F() { return f; }
       [Node("Eval_", 0, 0, 0, <<>>, "", Absent) EXCEPT !.end = FALSE], \* 194  the node of an Eval_ frame
       Id("eval"),                           \* 195  eval
       Lit(Str("x = 1; x = 0; 7;")),         \* 196  "x = 1; x = 0; 7;"
       Call(195, <<196>>),                   \* 197  eval("x = 1; x = 0; 7;")
       Assign(5, 197),                       \* 198  x = eval("x = 1; x = 0; 7;")
       ExprStmt(198),                        \* 199  x = eval("x = 1; x = 0; 7;");
       Throw(45),                            \* 200  throw 1;
       Lit(Str("throw 1;")),                 \* 201  "throw 1;"
       Call(195, <<201>>),                   \* 202  eval("throw 1;")
       ExprStmt(202),                        \* 203  eval("throw 1;");
       Block(<<203>>),                       \* 204  { eval(...); }
       Try(204, 16, 0),                      \* 205  try { eval("throw 1;"); } catch (e) { e; }
       Lit(Str("u;")),                       \* 206  "u;"
       Call(195, <<206>>),                   \* 207  eval("u;")
       ExprStmt(207),                        \* 208  eval(...);
       Block(<<208>>),                       \* 209  { eval(...); }
       Try(209, 16, 0),                      \* 210  try { eval("u;"); } catch (e) { e; }
       Block(<<200>>),                       \* 211  { throw 1; }
       Try(211, 16, 0),                      \* 212  try { throw 1; } catch (e) { e; }
       Lit(Str("try { throw 1; } catch (e) { e; } 7;")), \* 213  "try { throw 1; } catch (e) { e; } 7;"
       Call(195, <<213>>),                   \* 214  eval("try { throw 1; } catch (e) { e; } 7;")
       Assign(5, 214),                       \* 215  x = eval(...)
       ExprStmt(215),                        \* 216  x = eval(...);
       Call(195, <<>>),                      \* 217  eval()
       Assign(5, 217),                       \* 218  x = eval()
       ExprStmt(218),                        \* 219  x = eval();
       Call(195, <<49>>),                    \* 220  eval(f)
       Assign(5, 220),                       \* 221  x = eval(f)
       ExprStmt(221),                        \* 222  x = eval(f);
       This,                                 \* 223  this
       Assign(5, 223),                       \* 224  x = this
       ExprStmt(224),                        \* 225  x = this;
       Block(<<225>>),                       \* 226  { x = this; }
       FuncDecl("f", 226),                   \* 227  function f() { x = this; }
       Id("o"),                              \* 228  o
       Id("f"),                              \* 229  f (a property name)
       Member(228, 229, FALSE),              \* 230  o.f
       Assign(230, 49),                      \* 231  o.f = f
       ExprStmt(231),                        \* 232  o.f = f;
       Id("f"),                              \* 233  f (a property name)
       Member(228, 233, FALSE),              \* 234  o.f
       Call(234, <<>>),                      \* 235  o.f()
       ExprStmt(235),                        \* 236  o.f();
       Id("f"),                              \* 237  f (a property name)
       Member(228, 237, FALSE),              \* 238  o.f
       Assign(100, 238),                     \* 239  y = o.f
       ExprStmt(239),                        \* 240  y = o.f;
       Block(<<225>>),                       \* 241  { x = this; }
       FuncDecl("F", 241),                   \* 242  function F() { x = this; }
       ExprStmt(182),                        \* 243  new F();
       Id("bind"),                           \* 244  bind (a property name)
       Member(49, 244, FALSE),               \* 245  f.bind
       Call(245, <<228>>),                   \* 246  f.bind(o)
       Assign(55, 246),                      \* 247  g = f.bind(o)
       ExprStmt(247),                        \* 248  g = f.bind(o);
       Id("bind"),                           \* 249  bind (a property name)
       Member(49, 249, FALSE),               \* 250  f.bind
       Call(250, <<223>>),                   \* 251  f.bind(this)
       Id("f"),                              \* 252  f (a property name)
       Member(228, 252, FALSE),              \* 253  o.f
       Assign(253, 251),                     \* 254  o.f = f.bind(this)
       ExprStmt(254),                        \* 255  o.f = f.bind(this);
       Block(<<51>>),                        \* 256  { f(); }
       FuncDecl("g", 256),                   \* 257  function g() { f(); }
       Id("g"),                              \* 258  g (a property name)
       Member(228, 258, FALSE),              \* 259  o.g
       Assign(259, 55),                      \* 260  o.g = g
       ExprStmt(260),                        \* 261  o.g = g;
       Id("g"),                              \* 262  g (a property name)
       Member(228, 262, FALSE),              \* 263  o.g
       Call(263, <<>>),                      \* 264  o.g()
       ExprStmt(264)                         \* 265  o.g();
    >>

\* The control-flow programs.
CtlPrograms ==
    { [node |-> ProgramNode, body |-> <<107, 98>>],  \* for (x = 1; x; x = 0) { 10; } 7;
      [node |-> ProgramNode, body |-> <<109, 98>>],  \* for (x = 1; x; x = 0) { continue; 10; } 7;
      [node |-> ProgramNode, body |-> <<111, 98>>],  \* for (;;) { break; 10; } 7;
      [node |-> ProgramNode, body |-> <<112, 98>>],  \* for (x = 0; x; x = 1) { 10; } 7;
      [node |-> ProgramNode, body |-> <<114, 122>>], \* z = 1; for (x = 5; x; x = y) { y = z; z = 0; }
      [node |-> ProgramNode, body |-> <<131>>],      \* switch (5) { case 1: 10; case 5: 7; 8; default: 5; }
      [node |-> ProgramNode, body |-> <<134, 94>>],  \* switch (5) { case 1: 10; case 5: 7; break; default: 8; } 5;
      [node |-> ProgramNode, body |-> <<137>>],      \* switch (5) { case 1: 10; default: 7; case 5: 8; }
      [node |-> ProgramNode, body |-> <<139, 94>>],  \* switch (10) { case 1: 7; case 5: 8; } 5;
      [node |-> ProgramNode, body |-> <<141>>],      \* switch (nf(5)) { case 1: 7; case 10: 8; }
      [node |-> ProgramNode, body |-> <<147, 98>>],  \* L: while (1) { while (1) { break L; } 10; } 7;
      [node |-> ProgramNode, body |-> <<104, 154, 98>>], \* x = 1; L: while (x) { for (;;) { x = 0; continue L; } 10; } 7;
      [node |-> ProgramNode, body |-> <<158, 98>>],  \* for (x = 1; x; x = 0) { switch (5) { case 5: continue; } 10; } 7;
      [node |-> ProgramNode, body |-> <<54, 160>>],  \* function g() { break; } for (x = 1; x; x = 0) { g(); }
      [node |-> ProgramNode, body |-> <<162, 160>>], \* function g() { continue; } for (x = 1; x; x = 0) { g(); }
      [node |-> ProgramNode, body |-> <<164, 98>>],  \* L: { break L; 10; } 7;
      [node |-> ProgramNode, body |-> <<168, 166>>], \* function f() { return 5; 10; } x = f();
      [node |-> ProgramNode, body |-> <<91, 166>>],  \* function f() { 10; } x = f();
      [node |-> ProgramNode, body |-> <<171, 166>>], \* function f() { return; 10; } x = f();
      [node |-> ProgramNode, body |-> <<176, 166>>], \* function f() { while (1) { return 7; } 10; } x = f();
      [node |-> ProgramNode, body |-> <<48, 178, 180>>], \* function f() { return 5; } function g() { f(); return 7; } x = g();
      [node |-> ProgramNode, body |-> <<185, 184>>], \* function F() { } x = new F();
      [node |-> ProgramNode, body |-> <<187, 184>>], \* function F() { return 5; } x = new F();
      [node |-> ProgramNode, body |-> <<190, 184>>], \* function F() { return new Error("x"); } x = new F();
      [node |-> ProgramNode, body |-> <<91, 193, 184>>], \* function f() { 10; } function F() { return f; } x = new F();
      [node |-> ProgramNode, body |-> <<199>>],      \* x = eval("x = 1; x = 0; 7;");
      [node |-> ProgramNode, body |-> <<205, 4>>],   \* try { eval("throw 1;"); } catch (e) { e; } 10;
      [node |-> ProgramNode, body |-> <<210, 4>>],   \* try { eval("u;"); } catch (e) { e; } 10;
      [node |-> ProgramNode, body |-> <<216>>],      \* x = eval("try { throw 1; } catch (e) { e; } 7;");
      [node |-> ProgramNode, body |-> <<219>>],      \* x = eval();
      [node |-> ProgramNode, body |-> <<91, 222>>],  \* function f() { 10; } x = eval(f);
      [node |-> ProgramNode, body |-> <<203, 4>>],   \* eval("throw 1;"); 10;
      [node |-> ProgramNode, body |-> <<227, 51>>],  \* function f() { x = this; } f();
      [node |-> ProgramNode, body |-> <<227, 232, 236, 240>>], \* function f() { x = this; } o.f = f; o.f(); y = o.f;
      [node |-> ProgramNode, body |-> <<242, 243>>], \* function F() { x = this; } new F();
      [node |-> ProgramNode, body |-> <<227, 248, 57>>], \* function f() { x = this; } g = f.bind(o); g();
      [node |-> ProgramNode, body |-> <<227, 255, 236>>], \* function f() { x = this; } o.f = f.bind(this); o.f();
      [node |-> ProgramNode, body |-> <<227, 257, 261, 265>>], \* function f() { x = this; } function g() { f(); } o.g = g; o.g();
      [node |-> ProgramNode, body |-> <<225>>]       \* x = this;
    }

\* the node of the frame that holds a nested interpreter
EvalNode == 194

\* acorn.parse for the sources given to eval: the body of the Program
EvalSources ==
    << [code |-> "x = 1; x = 0; 7;", body |-> <<104, 149, 98>>],
       [code |-> "throw 1;", body |-> <<200>>],
       [code |-> "u;", body |-> <<32>>],
       [code |-> "try { throw 1; } catch (e) { e; } 7;", body |-> <<212, 98>>]
    >>

\* The nodes of the programs about properties, accessors and hoisting.
PropNodes ==
    << [Node("CallExpression", 0, 0, 0, <<>>, "", Absent) EXCEPT !.end = FALSE], \* 266  the node of a frame that calls an accessor
       Id("y"),                                \* 267  y
       Id("a"),                                \* 268  a
       Id("x"),                                \* 269  x (a property name)
       Member(268, 269, FALSE),                \* 270  a.x
       Lit(Num(5)),                            \* 271  5
       Assign(270, 271),                       \* 272  a.x = 5
       Assign(267, 272),                       \* 273  y = a.x = 5
       ExprStmt(273),                          \* 274  y = a.x = 5;
       Id("y"),                                \* 275  y
       Id("c"),                                \* 276  c
       Id("x"),                                \* 277  x (a property name)
       Member(276, 277, FALSE),                \* 278  c.x
       Lit(Num(7)),                            \* 279  7
       Assign(278, 279),                       \* 280  c.x = 7
       Assign(275, 280),                       \* 281  y = c.x = 7
       ExprStmt(281),                          \* 282  y = c.x = 7;
       Id("y"),                                \* 283  y
       Id("a"),                                \* 284  a
       Id("x"),                                \* 285  x (a property name)
       Member(284, 285, FALSE),                \* 286  a.x
       Lit(Num(5)),                            \* 287  5
       [Assign(286, 287) EXCEPT !.name = "+="], \* 288  a.x += 5
       Assign(283, 288),                       \* 289  y = a.x += 5
       ExprStmt(289),                          \* 290  y = a.x += 5;
       Id("o"),                                \* 291  o
       Id("x"),                                \* 292  x (a property name)
       Member(291, 292, FALSE),                \* 293  o.x
       Lit(Num(5)),                            \* 294  5
       Assign(293, 294),                       \* 295  o.x = 5
       ExprStmt(295),                          \* 296  o.x = 5;
       Id("y"),                                \* 297  y
       Id("o"),                                \* 298  o
       Id("x"),                                \* 299  x (a property name)
       Member(298, 299, FALSE),                \* 300  o.x
       Lit(Num(1)),                            \* 301  1
       [Assign(300, 301) EXCEPT !.name = "+="], \* 302  o.x += 1
       Assign(297, 302),                       \* 303  y = o.x += 1
       ExprStmt(303),                          \* 304  y = o.x += 1;
       Id("Object"),                           \* 305  Object
       Id("preventExtensions"),                \* 306  preventExtensions (a property name)
       Member(305, 306, FALSE),                \* 307  Object.preventExtensions
       Id("a"),                                \* 308  a
       Call(307, <<308>>),                     \* 309  Object.preventExtensions(a)
       ExprStmt(309),                          \* 310  Object.preventExtensions(a);
       Id("y"),                                \* 311  y
       Id("a"),                                \* 312  a
       Id("x"),                                \* 313  x (a property name)
       Member(312, 313, FALSE),                \* 314  a.x
       Lit(Num(5)),                            \* 315  5
       Assign(314, 315),                       \* 316  a.x = 5
       Assign(311, 316),                       \* 317  y = a.x = 5
       ExprStmt(317),                          \* 318  y = a.x = 5;
       Id("Object"),                           \* 319  Object
       Id("preventExtensions"),                \* 320  preventExtensions (a property name)
       Member(319, 320, FALSE),                \* 321  Object.preventExtensions
       Id("c"),                                \* 322  c
       Call(321, <<322>>),                     \* 323  Object.preventExtensions(c)
       ExprStmt(323),                          \* 324  Object.preventExtensions(c);
       Id("y"),                                \* 325  y
       Id("c"),                                \* 326  c
       Id("x"),                                \* 327  x (a property name)
       Member(326, 327, FALSE),                \* 328  c.x
       Lit(Num(7)),                            \* 329  7
       Assign(328, 329),                       \* 330  c.x = 7
       Assign(325, 330),                       \* 331  y = c.x = 7
       ExprStmt(331),                          \* 332  y = c.x = 7;
       Id("Object"),                           \* 333  Object
       Id("preventExtensions"),                \* 334  preventExtensions (a property name)
       Member(333, 334, FALSE),                \* 335  Object.preventExtensions
       Id("o"),                                \* 336  o
       Call(335, <<336>>),                     \* 337  Object.preventExtensions(o)
       ExprStmt(337),                          \* 338  Object.preventExtensions(o);
       Id("o"),                                \* 339  o
       Id("x"),                                \* 340  x (a property name)
       Member(339, 340, FALSE),                \* 341  o.x
       Lit(Num(5)),                            \* 342  5
       Assign(341, 342),                       \* 343  o.x = 5
       ExprStmt(343),                          \* 344  o.x = 5;
       Id("y"),                                \* 345  y
       Id("o"),                                \* 346  o
       Id("x"),                                \* 347  x (a property name)
       Member(346, 347, FALSE),                \* 348  o.x
       Assign(345, 348),                       \* 349  y = o.x
       ExprStmt(349),                          \* 350  y = o.x;
       Lit(Str("use strict")),                 \* 351  'use strict'
       ExprStmt(351),                          \* 352  'use strict';
       VarDeclarator("y", 0),                  \* 353  y
       VarDecl(<<353>>),                       \* 354  var y;
       Id("Object"),                           \* 355  Object
       Id("preventExtensions"),                \* 356  preventExtensions (a property name)
       Member(355, 356, FALSE),                \* 357  Object.preventExtensions
       Id("o"),                                \* 358  o
       Call(357, <<358>>),                     \* 359  Object.preventExtensions(o)
       ExprStmt(359),                          \* 360  Object.preventExtensions(o);
       Id("o"),                                \* 361  o
       Id("x"),                                \* 362  x (a property name)
       Member(361, 362, FALSE),                \* 363  o.x
       Lit(Num(5)),                            \* 364  5
       Assign(363, 364),                       \* 365  o.x = 5
       ExprStmt(365),                          \* 366  o.x = 5;
       Block(<<360, 366>>),                    \* 367  { Object.preventExtensions(o); o.x = 5; }
       Id("e"),                                \* 368  e
       ExprStmt(368),                          \* 369  e;
       Block(<<369>>),                         \* 370  { e; }
       Catch("e", 370),                        \* 371  catch (e) { e; }
       Try(367, 371, 0),                       \* 372  try { Object.preventExtensions(o); o.x = 5; } catch (e) { e; }
       Lit(Num(10)),                           \* 373  10
       ExprStmt(373),                          \* 374  10;
       VarDeclarator("z", 0),                  \* 375  z
       VarDecl(<<375>>),                       \* 376  var z;
       Id("y"),                                \* 377  y
       Id("z"),                                \* 378  z
       Id("x"),                                \* 379  x (a property name)
       Member(378, 379, FALSE),                \* 380  z.x
       Assign(377, 380),                       \* 381  y = z.x
       ExprStmt(381),                          \* 382  y = z.x;
       Block(<<382>>),                         \* 383  { y = z.x; }
       Id("e"),                                \* 384  e
       ExprStmt(384),                          \* 385  e;
       Block(<<385>>),                         \* 386  { e; }
       Catch("e", 386),                        \* 387  catch (e) { e; }
       Try(383, 387, 0),                       \* 388  try { y = z.x; } catch (e) { e; }
       Lit(Num(10)),                           \* 389  10
       ExprStmt(389),                          \* 390  10;
       VarDeclarator("z", 0),                  \* 391  z
       VarDecl(<<391>>),                       \* 392  var z;
       Id("z"),                                \* 393  z
       Id("x"),                                \* 394  x (a property name)
       Member(393, 394, FALSE),                \* 395  z.x
       Lit(Num(1)),                            \* 396  1
       [Assign(395, 396) EXCEPT !.name = "+="], \* 397  z.x += 1
       ExprStmt(397),                          \* 398  z.x += 1;
       Block(<<398>>),                         \* 399  { z.x += 1; }
       Id("e"),                                \* 400  e
       ExprStmt(400),                          \* 401  e;
       Block(<<401>>),                         \* 402  { e; }
       Catch("e", 402),                        \* 403  catch (e) { e; }
       Try(399, 403, 0),                       \* 404  try { z.x += 1; } catch (e) { e; }
       Lit(Num(10)),                           \* 405  10
       ExprStmt(405),                          \* 406  10;
       VarDeclarator("z", 0),                  \* 407  z
       VarDecl(<<407>>),                       \* 408  var z;
       Id("z"),                                \* 409  z
       Id("x"),                                \* 410  x (a property name)
       Member(409, 410, FALSE),                \* 411  z.x
       Lit(Num(1)),                            \* 412  1
       Assign(411, 412),                       \* 413  z.x = 1
       ExprStmt(413),                          \* 414  z.x = 1;
       Block(<<414>>),                         \* 415  { z.x = 1; }
       Id("e"),                                \* 416  e
       ExprStmt(416),                          \* 417  e;
       Block(<<417>>),                         \* 418  { e; }
       Catch("e", 418),                        \* 419  catch (e) { e; }
       Try(415, 419, 0),                       \* 420  try { z.x = 1; } catch (e) { e; }
       Lit(Num(10)),                           \* 421  10
       ExprStmt(421),                          \* 422  10;
       VarDeclarator("z", 0),                  \* 423  z
       VarDecl(<<423>>),                       \* 424  var z;
       Id("z"),                                \* 425  z
       Id("x"),                                \* 426  x (a property name)
       Member(425, 426, FALSE),                \* 427  z.x
       ExprStmt(427),                          \* 428  z.x;
       Id("y"),                                \* 429  y
       Id("o"),                                \* 430  o
       Id("x"),                                \* 431  x (a property name)
       Member(430, 431, FALSE),                \* 432  o.x
       Assign(429, 432),                       \* 433  y = o.x
       ExprStmt(433),                          \* 434  y = o.x;
       Block(<<434>>),                         \* 435  { y = o.x; }
       Id("e"),                                \* 436  e
       ExprStmt(436),                          \* 437  e;
       Block(<<437>>),                         \* 438  { e; }
       Catch("e", 438),                        \* 439  catch (e) { e; }
       Try(435, 439, 0),                       \* 440  try { y = o.x; } catch (e) { e; }
       Lit(Num(10)),                           \* 441  10
       ExprStmt(441),                          \* 442  10;
       Lit(Num(1)),                            \* 443  1
       Throw(443),                             \* 444  throw 1;
       Block(<<444>>),                         \* 445  { throw 1; }
       Id("e"),                                \* 446  e
       ExprStmt(446),                          \* 447  e;
       Block(<<447>>),                         \* 448  { e; }
       Catch("e", 448),                        \* 449  catch (e) { e; }
       Try(445, 449, 0),                       \* 450  try { throw 1; } catch (e) { e; }
       Lit(Num(10)),                           \* 451  10
       ExprStmt(451),                          \* 452  10;
       Id("u"),                                \* 453  u
       ExprStmt(453),                          \* 454  u;
       Block(<<454>>),                         \* 455  { u; }
       Id("e"),                                \* 456  e
       ExprStmt(456),                          \* 457  e;
       Block(<<457>>),                         \* 458  { e; }
       Catch("e", 458),                        \* 459  catch (e) { e; }
       Try(455, 459, 0),                       \* 460  try { u; } catch (e) { e; }
       Lit(Num(10)),                           \* 461  10
       ExprStmt(461),                          \* 462  10;
       Lit(Str("use strict")),                 \* 463  'use strict'
       ExprStmt(463),                          \* 464  'use strict';
       Id("u"),                                \* 465  u
       Lit(Num(5)),                            \* 466  5
       Assign(465, 466),                       \* 467  u = 5
       ExprStmt(467),                          \* 468  u = 5;
       Block(<<468>>),                         \* 469  { u = 5; }
       Id("e"),                                \* 470  e
       ExprStmt(470),                          \* 471  e;
       Block(<<471>>),                         \* 472  { e; }
       Catch("e", 472),                        \* 473  catch (e) { e; }
       Try(469, 473, 0),                       \* 474  try { u = 5; } catch (e) { e; }
       Lit(Num(10)),                           \* 475  10
       ExprStmt(475),                          \* 476  10;
       Id("u"),                                \* 477  u
       Call(477, <<>>),                        \* 478  u()
       ExprStmt(478),                          \* 479  u();
       Block(<<479>>),                         \* 480  { u(); }
       Id("e"),                                \* 481  e
       ExprStmt(481),                          \* 482  e;
       Block(<<482>>),                         \* 483  { e; }
       Catch("e", 483),                        \* 484  catch (e) { e; }
       Try(480, 484, 0),                       \* 485  try { u(); } catch (e) { e; }
       Lit(Num(10)),                           \* 486  10
       ExprStmt(486),                          \* 487  10;
       Id("o"),                                \* 488  o
       Id("x"),                                \* 489  x (a property name)
       Member(488, 489, FALSE),                \* 490  o.x
       Call(490, <<>>),                        \* 491  o.x()
       ExprStmt(491),                          \* 492  o.x();
       Block(<<492>>),                         \* 493  { o.x(); }
       Id("e"),                                \* 494  e
       ExprStmt(494),                          \* 495  e;
       Block(<<495>>),                         \* 496  { e; }
       Catch("e", 496),                        \* 497  catch (e) { e; }
       Try(493, 497, 0),                       \* 498  try { o.x(); } catch (e) { e; }
       Lit(Num(10)),                           \* 499  10
       ExprStmt(499),                          \* 500  10;
       Id("y"),                                \* 501  y
       Id("x"),                                \* 502  x
       Assign(501, 502),                       \* 503  y = x
       ExprStmt(503),                          \* 504  y = x;
       Lit(Num(5)),                            \* 505  5
       VarDeclarator("x", 505),                \* 506  x = 5
       VarDecl(<<506>>),                       \* 507  var x = 5;
       Id("y"),                                \* 508  y
       Id("f"),                                \* 509  f
       Call(509, <<>>),                        \* 510  f()
       Assign(508, 510),                       \* 511  y = f()
       ExprStmt(511),                          \* 512  y = f();
       Lit(Num(5)),                            \* 513  5
       Return(513),                            \* 514  return 5;
       Block(<<514>>),                         \* 515  { return 5; }
       FuncDecl("f", 515),                     \* 516  function f() { return 5; }
       VarDeclarator("f", 0),                  \* 517  f
       VarDecl(<<517>>),                       \* 518  var f;
       Lit(Num(5)),                            \* 519  5
       Return(519),                            \* 520  return 5;
       Block(<<520>>),                         \* 521  { return 5; }
       FuncDecl("f", 521),                     \* 522  function f() { return 5; }
       Id("y"),                                \* 523  y
       Id("f"),                                \* 524  f
       Call(524, <<>>),                        \* 525  f()
       Assign(523, 525),                       \* 526  y = f()
       ExprStmt(526),                          \* 527  y = f();
       Lit(Num(5)),                            \* 528  5
       Return(528),                            \* 529  return 5;
       Block(<<529>>),                         \* 530  { return 5; }
       FuncDecl("f", 530),                     \* 531  function f() { return 5; }
       VarDeclarator("f", 0),                  \* 532  f
       VarDecl(<<532>>),                       \* 533  var f;
       Id("y"),                                \* 534  y
       Id("f"),                                \* 535  f
       Call(535, <<>>),                        \* 536  f()
       Assign(534, 536),                       \* 537  y = f()
       ExprStmt(537),                          \* 538  y = f();
       Id("y"),                                \* 539  y
       Id("x"),                                \* 540  x
       Assign(539, 540),                       \* 541  y = x
       ExprStmt(541),                          \* 542  y = x;
       Lit(Num(5)),                            \* 543  5
       VarDeclarator("x", 543),                \* 544  x = 5
       VarDecl(<<544>>),                       \* 545  var x = 5;
       Id("x"),                                \* 546  x
       Return(546),                            \* 547  return x;
       Block(<<542, 545, 547>>),               \* 548  { y = x; var x = 5; return x; }
       FuncDecl("g", 548),                     \* 549  function g() { y = x; var x = 5; return x; }
       Id("z"),                                \* 550  z
       Id("g"),                                \* 551  g
       Call(551, <<>>),                        \* 552  g()
       Assign(550, 552),                       \* 553  z = g()
       ExprStmt(553),                          \* 554  z = g();
       Lit(Num(1)),                            \* 555  1
       VarDeclarator("z", 555),                \* 556  z = 1
       VarDecl(<<556>>),                       \* 557  var z = 1;
       Block(<<557>>),                         \* 558  { var z = 1; }
       FuncDecl("g", 558),                     \* 559  function g() { var z = 1; }
       Id("g"),                                \* 560  g
       Call(560, <<>>),                        \* 561  g()
       ExprStmt(561),                          \* 562  g();
       Id("y"),                                \* 563  y
       Id("z"),                                \* 564  z
       Assign(563, 564),                       \* 565  y = z
       ExprStmt(565),                          \* 566  y = z;
       Lit(Num(1)),                            \* 567  1
       VarDeclarator("x", 567),                \* 568  x = 1
       VarDecl(<<568>>),                       \* 569  var x = 1;
       Block(<<569>>),                         \* 570  { var x = 1; }
       Id("e"),                                \* 571  e
       ExprStmt(571),                          \* 572  e;
       Block(<<572>>),                         \* 573  { e; }
       Catch("e", 573),                        \* 574  catch (e) { e; }
       Try(570, 574, 0),                       \* 575  try { var x = 1; } catch (e) { e; }
       Id("y"),                                \* 576  y
       Id("x"),                                \* 577  x
       Assign(576, 577),                       \* 578  y = x
       ExprStmt(578)                           \* 579  y = x;
    >>

\* The nodes of the codes the host appends: they follow the nodes of
\* PropNodes in the table.
AppendNodes ==
    << VarDeclarator("x", 0),                  \* 580  x
       VarDecl(<<580>>),                       \* 581  var x;
       Lit(Num(7)),                            \* 582  7
       VarDeclarator("y", 582),                \* 583  y = 7
       VarDecl(<<583>>),                       \* 584  var y = 7;
       Id("y"),                                \* 585  y
       Id("x"),                                \* 586  x
       Assign(585, 586),                       \* 587  y = x
       ExprStmt(587)                           \* 588  y = x;
    >>

\* the programs the host appends code to
AppendPrograms ==
    { [node |-> ProgramNode, body |-> <<8, 9>>],         \* x = 5; x;
      [node |-> ProgramNode, body |-> <<4>>],            \* 10;
      [node |-> ProgramNode, body |-> <<504, 507>>] }    \* y = x; var x = 5;

\* the codes appended, all of them Program nodes
VarCodes ==
    { [program |-> TRUE, body |-> <<581>>],         \* var x;
      [program |-> TRUE, body |-> <<581, 588>>],    \* var x; y = x;
      [program |-> TRUE, body |-> <<584>>],         \* var y = 7;
      [program |-> TRUE, body |-> <<588>>] }        \* y = x;

PropPrograms ==
    { [node |-> ProgramNode, body |-> <<274>>],          \* y = a.x = 5;
      [node |-> ProgramNode, body |-> <<282>>],          \* y = c.x = 7;
      [node |-> ProgramNode, body |-> <<290>>],          \* y = a.x += 5;
      [node |-> ProgramNode, body |-> <<296, 304>>],     \* o.x = 5; y = o.x += 1;
      [node |-> ProgramNode, body |-> <<310, 318>>],     \* Object.preventExtensions(a); y = a.x = 5;
      [node |-> ProgramNode, body |-> <<324, 332>>],     \* Object.preventExtensions(c); y = c.x = 7;
      [node |-> ProgramNode, body |-> <<338, 344, 350>>], \* Object.preventExtensions(o); o.x = 5; y = o.x;
      [node |-> ProgramNode, body |-> <<352, 354, 372, 374>>], \* 'use strict'; var y; try { Object.preventExtensions(o); o.x = 5; } catch (e) { e; } 10;
      [node |-> ProgramNode, body |-> <<376, 388, 390>>], \* var z; try { y = z.x; } catch (e) { e; } 10;
      [node |-> ProgramNode, body |-> <<392, 404, 406>>], \* var z; try { z.x += 1; } catch (e) { e; } 10;
      [node |-> ProgramNode, body |-> <<408, 420, 422>>], \* var z; try { z.x = 1; } catch (e) { e; } 10;
      [node |-> ProgramNode, body |-> <<424, 428>>],     \* var z; z.x;
      [node |-> ProgramNode, body |-> <<440, 442>>],     \* try { y = o.x; } catch (e) { e; } 10;
      [node |-> ProgramNode, body |-> <<450, 452>>],     \* try { throw 1; } catch (e) { e; } 10;
      [node |-> ProgramNode, body |-> <<460, 462>>],     \* try { u; } catch (e) { e; } 10;
      [node |-> ProgramNode, body |-> <<464, 474, 476>>], \* 'use strict'; try { u = 5; } catch (e) { e; } 10;
      [node |-> ProgramNode, body |-> <<485, 487>>],     \* try { u(); } catch (e) { e; } 10;
      [node |-> ProgramNode, body |-> <<498, 500>>],     \* try { o.x(); } catch (e) { e; } 10;
      [node |-> ProgramNode, body |-> <<504, 507>>],     \* y = x; var x = 5;
      [node |-> ProgramNode, body |-> <<512, 516>>],     \* y = f(); function f() { return 5; }
      [node |-> ProgramNode, body |-> <<518, 522, 527>>], \* var f; function f() { return 5; } y = f();
      [node |-> ProgramNode, body |-> <<531, 533, 538>>], \* function f() { return 5; } var f; y = f();
      [node |-> ProgramNode, body |-> <<549, 554>>],     \* function g() { y = x; var x = 5; return x; } z = g();
      [node |-> ProgramNode, body |-> <<559, 562, 566>>], \* function g() { var z = 1; } g(); y = z;
      [node |-> ProgramNode, body |-> <<575, 579>>]      \* try { var x = 1; } catch (e) { e; } y = x;
    }

\* the node {type: 'CallExpression'} of the frame that calls an accessor
AccessorNode == 266

Names ==
    {"x", "y", "z", "e", "u", "af", "nf", "f", "g", "h", "F", "Error",
     "arguments", "eval", "o", "a", "c", "Object"}

(***************************************************************************)
(* Frames (interface State).  A field the code leaves undefined is FALSE,  *)
(* 0, "", the empty sequence or Absent; test keeps its three states.       *)
(***************************************************************************)
Frame(node) ==
    [node |-> node, scope |-> 0, thisExpression |-> Absent, done |-> FALSE,
     n_ |-> 0, value |-> Absent, components |-> FALSE, label |-> "",
     isLoop |-> FALSE, isSwitch |-> FALSE, test |-> "undefined",
     throwValue |-> Absent, doneBlock |-> FALSE, doneFinalizer |-> FALSE,
     doneBody |-> FALSE, argument |-> FALSE, doneCallee_ |-> FALSE,
     func_ |-> Absent, funcThis_ |-> Absent, doneArgs_ |-> FALSE,
     doneExec_ |-> FALSE, arguments |-> <<>>, isConstructor_ |-> FALSE,
     doneLeft |-> FALSE, doneRight |-> FALSE, leftSide |-> Absent,
     mode |-> 0, n |-> 0, index |-> 0, checked |-> {}, switchValue |-> Absent,
     interpreter |-> <<>>, doneObject_ |-> FALSE, doneProperty_ |-> FALSE,
     object |-> Absent, valueObject |-> <<>>, leftObject |-> <<>>,
     member_ |-> Absent, leftValue |-> Absent, doneSetter_ |-> Absent]

\* the frame the constructor puts on the stack
ProgramFrame(node) ==
    [Frame(node) EXCEPT !.scope = 1, !.thisExpression = ScopeVal(1)]

TypeOf(f) == ast[f.node].type

IsCallFrame(f) == TypeOf(f) \in {"CallExpression", "NewExpression"}

(***************************************************************************)
(* The interpreter as a record, threaded through the steppers.  exc is the *)
(* host exception a stepper raised (NoExc: none); log and thrown are the   *)
(* histories of the variables log and lastThrown, calls the native         *)
(* invocations the operation has made, pushed the nodes whose frames it    *)
(* has pushed.                                                             *)
(***************************************************************************)
Interp(stack, sc, bd, v, paused, prom, lg) ==
    [stateStack |-> stack, scopes |-> sc, body |-> bd, value |-> v,
     paused_ |-> paused, promise |-> prom, log |-> lg, exc |-> NoExc,
     thrown |-> Absent, calls |-> <<>>, pushed |-> <<>>]

\* a throw statement of the implementation: the exception leaves step()
HostThrow(s, type, msg) == [s EXCEPT !.exc = Exc(type, msg)]

\* stateStack.shift()
Shift(s) == [s EXCEPT !.stateStack = Tail(@)]

\* stateStack.unshift(frame)
Unshift(s, f) ==
    [s EXCEPT !.stateStack = <<f>> \o @, !.pushed = Append(@, f.node)]

\* the stack with v for the value of its first frame ([object, property]
\* pairs are kept in value and valueObject)
WithValue(stack, v) ==
    [stack EXCEPT ![1].value = v, ![1].valueObject = <<>>]

\* this.stateStack[0].value = v (a TypeError of the host when the stack is empty)
SetTopValue(s, v) ==
    IF s.stateStack = <<>>
    THEN HostThrow(s, "TypeError", "Cannot set property 'value' of undefined")
    ELSE [s EXCEPT !.stateStack = WithValue(@, v)]

\* this.stateStack[0].value = [object, property]: the frame keeps the
\* property in value and the object in valueObject
SetTopPair(s, object, property) ==
    IF s.stateStack = <<>>
    THEN HostThrow(s, "TypeError", "Cannot set property 'value' of undefined")
    ELSE [s EXCEPT !.stateStack[1].value = property,
                   !.stateStack[1].valueObject = <<object>>]

(***************************************************************************)
(* Scopes: an arena of scope objects; 0 is the null parentScope.  The      *)
(* arena also holds the data objects the host creates: setter maps the     *)
(* names that have a setter to the function, proto is the object held by   *)
(* parent.properties.prototype (0: none).                                  *)
(***************************************************************************)
Scope(parentScope, strict) ==
    [parentScope |-> parentScope, strict |-> strict,
     properties |-> [nm \in Names |-> Absent],
     setter |-> <<>>, proto |-> 0, preventExtensions |-> FALSE]

\* setProperty(scope, name, value) on a scope object: a plain store
SetScopeProperty(s, sc, name, v) ==
    [s EXCEPT !.scopes[sc].properties[name] = v]

\* getScope(): the scope of the first frame that has one (0: the code throws
\* Error('No scope found.'))
ScopeFrames(stack) == {i \in 1..Len(stack) : stack[i].scope # 0}

Min(S) == CHOOSE i \in S : \A j \in S : i <= j

getScope(s) ==
    IF ScopeFrames(s.stateStack) = {} THEN 0
    ELSE s.stateStack[Min(ScopeFrames(s.stateStack))].scope

\* the children of a node in property order (a Program's body is passed on
\* its own, it lives in the variable body)
Children(id) ==
    SelectSeq(<<ast[id].a, ast[id].b, ast[id].c>>, LAMBDA k : k # 0) \o ast[id].kids

RECURSIVE DeclareAll(_, _, _)
\* populateScope_, the loop over node.declarations:
\* setProperty(scope, id.name, UNDEFINED) for each
DeclareAll(s, declarations, sc) ==
    IF declarations = <<>> THEN s
    ELSE DeclareAll(SetScopeProperty(s, sc, ast[Head(declarations)].name, UNDEFINED),
                    Tail(declarations), sc)

RECURSIVE populateScope_(_, _, _)
\* populateScope_(node, scope), over the list of nodes still to visit
populateScope_(s, ids, sc) ==
    IF ids = <<>> THEN s
    ELSE LET id == Head(ids)
             nd == ast[id]
         IN  CASE nd.type = "VariableDeclaration" ->
                    populateScope_(DeclareAll(s, nd.kids, sc),
                                   Children(id) \o Tail(ids), sc)
               [] nd.type = "FunctionDeclaration" ->
                    populateScope_(SetScopeProperty(s, sc, nd.name, createFunction(id, sc)),
                                   Tail(ids), sc)
               [] nd.type = "FunctionExpression" ->
                    populateScope_(s, Tail(ids), sc)
               [] OTHER ->
                    populateScope_(s, Children(id) \o Tail(ids), sc)

\* the 'use strict' test of createScope
StartsStrict(stmts) ==
    /\ stmts # <<>>
    /\ ast[stmts[1]].type = "ExpressionStatement"
    /\ ast[ast[stmts[1]].a].type = "Literal"
    /\ ast[ast[stmts[1]].a].val = Str("use strict")

\* createScope(node, parentScope) for a function body: the new scope is the
\* last of the arena
createScope(s, bodyNode, parentScope) ==
    LET strict == s.scopes[parentScope].strict \/ StartsStrict(ast[bodyNode].kids)
        s1 == [s EXCEPT !.scopes = Append(@, Scope(parentScope, strict))]
    IN  populateScope_(s1, Children(bodyNode), Len(s1.scopes))

\* createSpecialScope(parentScope)
createSpecialScope(s, parentScope) ==
    [s EXCEPT !.scopes = Append(@, Scope(parentScope, s.scopes[parentScope].strict))]

RECURSIVE FindBinding(_, _, _)
\* the first scope of the chain from sc that binds name (0: none)
FindBinding(sc, scs, name) ==
    IF sc = 0 THEN 0
    ELSE IF scs[sc].properties[name] # Absent THEN sc
    ELSE FindBinding(scs[sc].parentScope, scs, name)

RECURSIVE GlobalOf(_, _)
GlobalOf(sc, scs) ==
    IF scs[sc].parentScope = 0 THEN sc ELSE GlobalOf(scs[sc].parentScope, scs)

(***************************************************************************)
(* throwException(errorClass, opt_message).  opt_message is Str(m), or     *)
(* Absent for undefined, and then errorClass is the value thrown.          *)
(***************************************************************************)
IsTryWithHandler(f) == TypeOf(f) = "TryStatement" /\ ast[f.node].b # 0

\* the host error for an uncaught value
realError(error) ==
    IF isaError(error)
    THEN Exc(IF error.c \in ErrorSubclasses THEN error.c ELSE "Error", error.s)
    ELSE Exc("string", toString(error))

throwException(s, errorClass, opt_message) ==
    LET error == IF opt_message = Absent THEN errorClass
                 ELSE [Obj(errorClass.c) EXCEPT !.s = opt_message.s]
        tries == {i \in 1..Len(s.stateStack) : IsTryWithHandler(s.stateStack[i])}
    IN  IF tries # {}
        THEN LET i == Min(tries)
                 handler == ast[s.stateStack[i].node].b
             IN  [s EXCEPT !.stateStack =
                     <<[Frame(handler) EXCEPT !.throwValue = error]>>
                       \o SubSeq(@, i + 1, Len(@)),
                           !.thrown = error,
                           !.pushed = Append(@, handler)]
        ELSE [s EXCEPT !.stateStack = <<>>, !.exc = realError(error),
                       !.thrown = error]

\* getValueFromScope(name): v is the value, or Absent (null) after a throw
getValueFromScope(s, name) ==
    LET sc == FindBinding(getScope(s), s.scopes, name)
    IN  IF getScope(s) = 0
        THEN [s |-> HostThrow(s, "Error", "No scope found."), v |-> Absent]
        ELSE IF sc # 0
        THEN [s |-> s, v |-> s.scopes[sc].properties[name]]
        ELSE [s |-> throwException(s, REFERENCE_ERROR, Str(name \o " is not defined")),
              v |-> Absent]

\* the host's NaN
HostNaN == -1000

\* a + b of the host's numbers, with NaN
HostPlus(a, b) == IF a = HostNaN \/ b = HostNaN THEN HostNaN ELSE a + b

\* Primitive.toNumber() of a value
toNumber(v) == IF v.k = "number" THEN v.n ELSE HostNaN

\* the objects of the arena as values
IsStored(s, v) == v.k = "object" /\ v.c = "Scope" /\ v.n \in 1..Len(s.scopes)

\* the constructor Object of the global scope
OBJECT_FN == NativeFn("Object")

RECURSIVE FindProperty(_, _, _)
\* the walk of getProperty: the first object from i along
\* parent.properties.prototype that has the property (0: none)
FindProperty(scs, i, name) ==
    IF scs[i].properties[name] # Absent THEN i
    ELSE IF scs[i].proto # 0 THEN FindProperty(scs, scs[i].proto, name)
    ELSE 0

\* the setter search looking at the object only, not at its prototypes
FindSetter_m(scs, i, name) ==
    IF name \in DOMAIN scs[i].setter THEN scs[i].setter[name]
    ELSE Absent

RECURSIVE FindSetter(_, _, _)
\* the walk of setProperty: the setter of the first object from i along
\* parent.properties.prototype that has one for the name (Absent: none)
FindSetter(scs, i, name) ==
    IF name \in DOMAIN scs[i].setter THEN scs[i].setter[name]
    ELSE IF scs[i].proto # 0 THEN FindSetter(scs, scs[i].proto, name)
    ELSE Absent

\* getProperty(obj, name) for the values of the interpreter: the property of
\* an object of the arena or of its prototypes, bind of a function (found on
\* FUNCTION's prototype), Object.preventExtensions, UNDEFINED for what is
\* not there
getMember(s, object, name) ==
    IF object = Absent
    THEN [s |-> HostThrow(s, "TypeError", "Cannot read property 'properties' of undefined"),
          v |-> Absent]
    ELSE IF object.k \in {"undefined", "null"}
    THEN [s |-> throwException(s, TYPE_ERROR,
                               Str("Cannot read property '" \o toString(name)
                                       \o "' of " \o toString(object))),
          v |-> Absent]
    ELSE IF IsStored(s, object) /\ name.s \in Names
                /\ FindProperty(s.scopes, object.n, name.s) # 0
    THEN [s |-> s,
          v |-> s.scopes[FindProperty(s.scopes, object.n, name.s)].properties[name.s]]
    ELSE IF object.k = "function" /\ name.s = "bind"
    THEN [s |-> s, v |-> NativeFn("bind")]
    ELSE IF object = OBJECT_FN /\ name.s = "preventExtensions"
    THEN [s |-> s, v |-> NativeFn("preventExtensions")]
    ELSE [s |-> s, v |-> UNDEFINED]

\* setProperty(obj, name, value) for the values of the interpreter, without
\* descriptor: s is the interpreter after the call and setter what it
\* returned (Absent: undefined).  A primitive is left alone, an object
\* that is not extensible gets no new property, a setter found on the object
\* or its prototypes is returned instead of storing, and otherwise the value
\* is stored (the objects of the arena have no property that is not
\* writable; what is stored on an object outside the arena is not kept)
setMember(s, object, name, v) ==
    LET s1 == IF object.k \in {"undefined", "null"}
              THEN throwException(s, TYPE_ERROR,
                                  Str("Cannot set property '" \o toString(name)
                                          \o "' of " \o toString(object)))
              ELSE s
        o == s1.scopes[object.n]
        cur == getScope(s1)
        found == FindSetter(s1.scopes, object.n, name.s)
    IN  IF object = Absent
        THEN [s |-> HostThrow(s, "TypeError", "Cannot read property 'isPrimitive' of undefined"),
              setter |-> Absent]
        ELSE IF s1.exc # NoExc \/ ~IsStored(s1, object) \/ name.s \notin Names
        THEN [s |-> s1, setter |-> Absent]
        ELSE IF o.properties[name.s] = Absent /\ o.preventExtensions
        THEN [s |-> IF cur = 0 THEN HostThrow(s1, "Error", "No scope found.")
                    ELSE IF s1.scopes[cur].strict
                    THEN throwException(s1, TYPE_ERROR,
                                        Str("Can't add property " \o name.s
                                                \o " object is not extensible"))
                    ELSE s1,
              setter |-> Absent]
        ELSE IF found # Absent
        THEN [s |-> s1, setter |-> found]
        ELSE [s |-> SetScopeProperty(s1, object.n, name.s, v), setter |-> Absent]

\* setValueToScope with the sloppy write going to the current scope
setValueToScope_m(s, name, v) ==
    LET cur == getScope(s)
        sc == FindBinding(cur, s.scopes, name)
    IN  IF cur = 0 THEN HostThrow(s, "Error", "No scope found.")
        ELSE IF sc # 0 THEN SetScopeProperty(s, sc, name, v)
        ELSE IF ~s.scopes[cur].strict
        THEN SetScopeProperty(s, cur, name, v)
        ELSE throwException(s, REFERENCE_ERROR, Str(name \o " is not defined"))

\* setValueToScope(name, value)
setValueToScope(s, name, v) ==
    LET cur == getScope(s)
        sc == FindBinding(cur, s.scopes, name)
    IN  IF cur = 0 THEN HostThrow(s, "Error", "No scope found.")
        ELSE IF sc # 0 THEN SetScopeProperty(s, sc, name, v)
        ELSE IF ~s.scopes[cur].strict
        THEN SetScopeProperty(s, GlobalOf(cur, s.scopes), name, v)
        ELSE throwException(s, REFERENCE_ERROR, Str(name \o " is not defined"))

(***************************************************************************)
(* Natives.                                                                *)
(***************************************************************************)
\* Boolean(data) / JsObject.toBoolean
toBoolean(v) ==
    CASE v.k = "number" -> v.n # 0
      [] v.k = "string" -> v.s # ""
      [] v.k = "undefined" -> FALSE
      [] OTHER -> TRUE

\* nativeFunc.apply(funcThis_, arguments) for the natives of the global scope:
\* the Error constructor (initError), Function.prototype.bind,
\* Object.preventExtensions and the host's own functions, which return
\* createPrimitive(10)
nativeApply(func, funcThis, args) ==
    IF func.c = "Error"
    THEN LET newError == IF funcThis.c = "Error" /\ funcThis.n = 0 THEN funcThis
                         ELSE Obj("Error")
         IN  IF args # <<>> /\ toBoolean(args[1])
             THEN [newError EXCEPT !.s = toString(args[1])]
             ELSE newError
    \* Function.prototype.bind: a clone of the function with thisArg pinned
    ELSE IF func.c = "bind"
    THEN [createFunction(funcThis.n, funcThis.p) EXCEPT
              !.boundThis_ = IF args # <<>> THEN <<args[1]>> ELSE <<>>,
              !.boundArgs_ = IF args # <<>> THEN Tail(args) ELSE <<>>]
    \* Object.preventExtensions(obj) returns obj
    ELSE IF func.c = "preventExtensions" /\ args # <<>>
    THEN args[1]
    ELSE Num(10)

\* what a native does to the objects: Object.preventExtensions(obj) sets
\* obj.preventExtensions unless obj is a primitive
nativeEffect(s, func, args) ==
    IF func.c = "preventExtensions" /\ args # <<>> /\ IsStored(s, args[1])
    THEN [s EXCEPT !.scopes[args[1].n].preventExtensions = TRUE]
    ELSE s

(***************************************************************************)
(* The steppers.  Each maps the interpreter before the call to the         *)
(* interpreter after it.                                                   *)
(***************************************************************************)
stepBlockStatement(s) ==
    LET state == s.stateStack[1]
        isProgram == TypeOf(state) = "Program"
        stmts == IF isProgram THEN s.body ELSE ast[state.node].kids
        n == state.n_
    IN  IF n < Len(stmts)
        THEN LET s1 == [s EXCEPT !.stateStack[1].done = FALSE,
                                 !.stateStack[1].n_ = n + 1,
                                 !.log = IF isProgram THEN Append(@, stmts[n + 1]) ELSE @]
             IN  Unshift(s1, Frame(stmts[n + 1]))
        ELSE LET s1 == [s EXCEPT !.stateStack[1].done = TRUE]
             IN  IF ~isProgram THEN Shift(s1) ELSE s1

stepProgram(s) == stepBlockStatement(s)

RECURSIVE BreakSearch(_, _)
\* the loop of stepBreakStatement over the frames below the break frame:
\* the stack that is left, and whether a target was found
BreakSearch(stack, label) ==
    IF stack = <<>> THEN [stack |-> <<>>, found |-> FALSE]
    ELSE IF IsCallFrame(Head(stack)) THEN [stack |-> Tail(stack), found |-> FALSE]
    ELSE IF (IF label # "" THEN label = Head(stack).label
             ELSE Head(stack).isLoop \/ Head(stack).isSwitch)
    THEN [stack |-> Tail(stack), found |-> TRUE]
    ELSE BreakSearch(Tail(stack), label)

\* stepBreakStatement that takes no notice of the label
stepBreakStatement_m(s) ==
    LET r == BreakSearch(Tail(s.stateStack), "")
    IN  IF r.found THEN [s EXCEPT !.stateStack = r.stack]
        ELSE HostThrow([s EXCEPT !.stateStack = r.stack],
                       "SyntaxError", "Illegal break statement")

stepBreakStatement(s) ==
    LET label == ast[s.stateStack[1].node].name
        r == BreakSearch(Tail(s.stateStack), label)
    IN  IF r.found THEN [s EXCEPT !.stateStack = r.stack]
        ELSE HostThrow([s EXCEPT !.stateStack = r.stack],
                       "SyntaxError", "Illegal break statement")

RECURSIVE ContinueSearch(_, _)
\* the loop of stepContinueStatement, from the continue frame itself
ContinueSearch(stack, label) ==
    IF stack = <<>> THEN [stack |-> <<>>, found |-> FALSE]
    ELSE IF IsCallFrame(Head(stack)) THEN [stack |-> stack, found |-> FALSE]
    ELSE IF Head(stack).isLoop /\ (label = "" \/ label = Head(stack).label)
    THEN [stack |-> stack, found |-> TRUE]
    ELSE ContinueSearch(Tail(stack), label)

stepContinueStatement(s) ==
    LET label == ast[s.stateStack[1].node].name
        r == ContinueSearch(s.stateStack, label)
    IN  IF r.found THEN [s EXCEPT !.stateStack = r.stack]
        ELSE HostThrow([s EXCEPT !.stateStack = r.stack],
                       "SyntaxError", "Illegal continue statement")

RECURSIVE ReturnSearch(_)
\* the do-while of stepReturnStatement: shift, then stop at a call frame
ReturnSearch(stack) ==
    IF Tail(stack) = <<>> THEN [stack |-> <<>>, found |-> FALSE]
    ELSE IF IsCallFrame(Head(Tail(stack))) THEN [stack |-> Tail(stack), found |-> TRUE]
    ELSE ReturnSearch(Tail(stack))

\* stepReturnStatement raising the return outside a call as an
\* interpreter-level SyntaxError, which a handler can catch
stepReturnStatement_m(s) ==
    LET state == s.stateStack[1]
        node == ast[state.node]
    IN  IF node.a # 0 /\ ~state.done
        THEN Unshift([s EXCEPT !.stateStack[1].done = TRUE], Frame(node.a))
        ELSE LET v == IF state.value = Absent THEN UNDEFINED ELSE state.value
                 r == ReturnSearch(s.stateStack)
             IN  IF r.found
                 THEN [s EXCEPT !.stateStack = WithValue(r.stack, v)]
                 ELSE throwException(s, NativeFn("SyntaxError"),
                                     Str("Illegal return statement"))

\* stepReturnStatement that drops the value of the argument
stepReturnStatement_u(s) ==
    LET state == s.stateStack[1]
        node == ast[state.node]
    IN  IF node.a # 0 /\ ~state.done
        THEN Unshift([s EXCEPT !.stateStack[1].done = TRUE], Frame(node.a))
        ELSE LET r == ReturnSearch(s.stateStack)
             IN  IF r.found
                 THEN [s EXCEPT !.stateStack = WithValue(r.stack, UNDEFINED)]
                 ELSE HostThrow([s EXCEPT !.stateStack = r.stack],
                                "SyntaxError", "Illegal return statement")

stepReturnStatement(s) ==
    LET state == s.stateStack[1]
        node == ast[state.node]
    IN  IF node.a # 0 /\ ~state.done
        THEN Unshift([s EXCEPT !.stateStack[1].done = TRUE], Frame(node.a))
        ELSE LET v == IF state.value = Absent THEN UNDEFINED ELSE state.value
                 r == ReturnSearch(s.stateStack)
             IN  IF r.found
                 THEN [s EXCEPT !.stateStack = WithValue(r.stack, v)]
                 ELSE HostThrow([s EXCEPT !.stateStack = r.stack],
                                "SyntaxError", "Illegal return statement")

stepDoWhileStatement(s) ==
    LET node == ast[s.stateStack[1].node]
        first == node.type = "DoWhileStatement" /\ s.stateStack[1].test = "undefined"
        s0 == [s EXCEPT !.stateStack[1].isLoop = TRUE,
                        !.stateStack[1].value = IF first THEN Val("boolean", 1, "", "Boolean", 0) ELSE @,
                        !.stateStack[1].test = IF first THEN "true" ELSE @]
        state == s0.stateStack[1]
    IN  IF state.test # "true"
        THEN Unshift([s0 EXCEPT !.stateStack[1].test = "true"], Frame(node.a))
        ELSE LET s1 == [s0 EXCEPT !.stateStack[1].test = "false"]
             IN  IF state.value = Absent
                 THEN HostThrow(s1, "TypeError", "Cannot read property 'toBoolean' of undefined")
                 ELSE IF ~toBoolean(state.value) THEN Shift(s1)
                 ELSE IF node.b # 0 THEN Unshift(s1, Frame(node.b))
                 ELSE s1

stepWhileStatement(s) == stepDoWhileStatement(s)

stepExpressionStatement(s) ==
    LET state == s.stateStack[1]
    IN  IF ~state.done
        THEN Unshift([s EXCEPT !.stateStack[1].done = TRUE], Frame(ast[state.node].a))
        ELSE [Shift(s) EXCEPT !.value = state.value]

stepFunctionDeclaration(s) == Shift(s)

stepIdentifier(s) ==
    LET state == s.stateStack[1]
        name == ast[state.node].name
        s1 == Shift(s)
        r == getValueFromScope(s1, name)
    IN  IF state.components THEN SetTopValue(s1, Str(name))
        ELSE IF r.v # Absent THEN SetTopValue(s1, r.v)
        \* thrown: the null goes to the frame that was on top before the
        \* throw, which throwException has taken off the stack
        ELSE r.s

stepLabeledStatement(s) ==
    LET node == ast[s.stateStack[1].node]
    IN  Unshift(Shift(s), [Frame(node.a) EXCEPT !.label = node.name])

\* the getter branch is left out: no property of these programs has one
stepMemberExpression(s) ==
    LET state == s.stateStack[1]
        node == ast[state.node]
        s1 == Shift(s)
        r == getMember(s1, state.object, state.value)
    IN  IF ~state.doneObject_
        THEN Unshift([s EXCEPT !.stateStack[1].doneObject_ = TRUE], Frame(node.a))
        ELSE IF ~state.doneProperty_
        THEN Unshift([s EXCEPT !.stateStack[1].doneProperty_ = TRUE,
                               !.stateStack[1].object = state.value],
                     [Frame(node.b) EXCEPT !.components = node.name # "computed"])
        ELSE IF state.components THEN SetTopPair(s1, state.object, state.value)
        ELSE IF r.s.exc # NoExc THEN r.s
        \* `value.isGetter` of the null getProperty returns after a throw
        \* that was caught
        ELSE IF r.v = Absent
        THEN HostThrow(r.s, "TypeError", "Cannot read property 'isGetter' of null")
        ELSE SetTopValue(s1, r.v)

stepVariableDeclaration(s) ==
    LET state == s.stateStack[1]
        declarations == ast[state.node].kids
    IN  IF state.n < Len(declarations)
        THEN Unshift([s EXCEPT !.stateStack[1].n = @ + 1],
                     Frame(declarations[state.n + 1]))
        ELSE Shift(s)

\* setValue(name, value) of a declarator goes to setValueToScope
stepVariableDeclarator(s) ==
    LET state == s.stateStack[1]
        node == ast[state.node]
        s1 == setValueToScope(s, node.name, state.value)
    IN  IF node.a # 0 /\ ~state.done
        THEN Unshift([s EXCEPT !.stateStack[1].done = TRUE], Frame(node.a))
        ELSE IF node.a # 0
        THEN IF s1.exc # NoExc THEN s1 ELSE Shift(s1)
        ELSE Shift(s)

\* the frames that carry a thisExpression
ThisFrames(stack) == {i \in 1..Len(stack) : stack[i].thisExpression # Absent}

stepThisExpression(s) ==
    LET s1 == Shift(s)
    IN  IF ThisFrames(s1.stateStack) = {}
        THEN HostThrow(s1, "Error", "No this expression found.")
        ELSE SetTopValue(s1, s1.stateStack[Min(ThisFrames(s1.stateStack))].thisExpression)

stepLiteral(s) ==
    SetTopValue(Shift(s), ast[s.stateStack[1].node].val)

stepThrowStatement(s) ==
    LET state == s.stateStack[1]
    IN  IF ~state.argument
        THEN Unshift([s EXCEPT !.stateStack[1].argument = TRUE], Frame(ast[state.node].a))
        ELSE throwException(s, state.value, Absent)

stepTryStatement(s) ==
    LET state == s.stateStack[1]
        node == ast[state.node]
    IN  IF ~state.doneBlock
        THEN Unshift([s EXCEPT !.stateStack[1].doneBlock = TRUE], Frame(node.a))
        ELSE IF ~state.doneFinalizer /\ node.c # 0
        THEN Unshift([s EXCEPT !.stateStack[1].doneFinalizer = TRUE], Frame(node.c))
        ELSE Shift(s)

stepCatchClause(s) ==
    LET state == s.stateStack[1]
        node == ast[state.node]
        s1 == [s EXCEPT !.stateStack[1].doneBody = TRUE]
        s2 == createSpecialScope(s1, getScope(s1))
        scope == Len(s2.scopes)
    IN  IF ~state.doneBody
        THEN IF node.name # ""
             THEN IF getScope(s1) = 0 THEN HostThrow(s1, "Error", "No scope found.")
                  ELSE Unshift(SetScopeProperty(s2, scope, node.name, state.throwValue),
                               [Frame(node.a) EXCEPT !.scope = scope])
             ELSE Unshift(s1, Frame(node.a))
        ELSE Shift(s)

\* getValue(left) for the value of a frame: the property of an object for
\* an [object, property] pair, the variable otherwise
getValue(s, state) ==
    IF state.valueObject # <<>>
    THEN getMember(s, state.valueObject[1], state.value)
    ELSE getValueFromScope(s, state.value.s)

\* the value of a compound assignment, for the operator '+=': the strings
\* joined when one side is a string, the sum of the numbers otherwise
assignValue(operator, leftValue, rightValue) ==
    IF operator = "="
    THEN rightValue
    ELSE IF leftValue.k = "string" \/ rightValue.k = "string"
    THEN Str(toString(leftValue) \o toString(rightValue))
    ELSE Num(HostPlus(toNumber(leftValue), toNumber(rightValue)))

\* setValue(left, value): setProperty for an [object, property] pair, which
\* may return a setter, and setValueToScope otherwise
setValue(s, leftObject, leftSide, v) ==
    IF leftObject # <<>>
    THEN setMember(s, leftObject[1], leftSide, v)
    ELSE [s |-> setValueToScope(s, leftSide.s, v), setter |-> Absent]

\* the frame that calls an accessor: node {type: 'CallExpression'} with
\* callee and arguments done
AccessorCall(func, funcThis, args) ==
    [Frame(AccessorNode) EXCEPT !.doneCallee_ = TRUE, !.funcThis_ = funcThis,
                                !.func_ = func, !.doneArgs_ = TRUE,
                                !.arguments = args]

\* stepAssignmentExpression handing on what the setter returned
stepAssignmentExpression_m(s) ==
    LET state == s.stateStack[1]
        node == ast[state.node]
        first == state.leftSide = Absent
        leftSide == IF first THEN state.value ELSE state.leftSide
        leftObject == IF first THEN state.valueObject ELSE state.leftObject
        load == getValue(s, [state EXCEPT !.value = leftSide,
                                          !.valueObject = leftObject])
        assigned == assignValue(node.name, state.leftValue, state.value)
        w == setValue(s, leftObject, leftSide, assigned)
    IN  IF ~state.doneLeft
        THEN Unshift([s EXCEPT !.stateStack[1].doneLeft = TRUE],
                     [Frame(node.a) EXCEPT !.components = TRUE])
        ELSE IF ~state.doneRight
        THEN IF node.name # "=" /\ load.s.exc # NoExc
             THEN load.s
             ELSE IF node.name # "=" /\ load.v = Absent
             THEN HostThrow(load.s, "TypeError", "Cannot read property 'isGetter' of null")
             ELSE Unshift([s EXCEPT !.stateStack[1].leftSide = leftSide,
                                    !.stateStack[1].leftObject = leftObject,
                                    !.stateStack[1].leftValue =
                                        IF node.name # "=" THEN load.v ELSE @,
                                    !.stateStack[1].doneRight = TRUE],
                          Frame(node.b))
        ELSE IF state.doneSetter_ # Absent
        THEN SetTopValue(Shift(s), state.value)
        ELSE IF w.s.exc # NoExc THEN w.s
        ELSE IF w.setter # Absent
        THEN Unshift([w.s EXCEPT !.stateStack[1].doneSetter_ = assigned],
                     AccessorCall(w.setter, leftObject[1], <<assigned>>))
        ELSE SetTopValue(Shift(w.s), assigned)

\* stepAssignmentExpression for the operators '=' and '+=' (no property of
\* these programs has a getter, so that doneGetter_ stays unset)
stepAssignmentExpression(s) ==
    LET state == s.stateStack[1]
        node == ast[state.node]
        first == state.leftSide = Absent
        leftSide == IF first THEN state.value ELSE state.leftSide
        leftObject == IF first THEN state.valueObject ELSE state.leftObject
        \* state.leftValue = this.getValue(state.leftSide)
        load == getValue(s, [state EXCEPT !.value = leftSide,
                                          !.valueObject = leftObject])
        assigned == assignValue(node.name, state.leftValue, state.value)
        w == setValue(s, leftObject, leftSide, assigned)
    IN  IF ~state.doneLeft
        THEN Unshift([s EXCEPT !.stateStack[1].doneLeft = TRUE],
                     [Frame(node.a) EXCEPT !.components = TRUE])
        ELSE IF ~state.doneRight
        THEN IF node.name # "=" /\ load.s.exc # NoExc
             THEN load.s
             \* state.leftValue.isGetter of the null getValue returns after
             \* a throw that was caught
             ELSE IF node.name # "=" /\ load.v = Absent
             THEN HostThrow(load.s, "TypeError", "Cannot read property 'isGetter' of null")
             ELSE Unshift([s EXCEPT !.stateStack[1].leftSide = leftSide,
                                    !.stateStack[1].leftObject = leftObject,
                                    !.stateStack[1].leftValue =
                                        IF node.name # "=" THEN load.v ELSE @,
                                    !.stateStack[1].doneRight = TRUE],
                          Frame(node.b))
        ELSE IF state.doneSetter_ # Absent
        THEN SetTopValue(Shift(s), state.doneSetter_)
        ELSE IF w.s.exc # NoExc THEN w.s
        ELSE IF w.setter # Absent
        THEN Unshift([w.s EXCEPT !.stateStack[1].doneSetter_ = assigned],
                     AccessorCall(w.setter, leftObject[1], <<assigned>>))
        ELSE SetTopValue(Shift(w.s), assigned)

\* acorn.parse(code): the body of the Program, or <<0>> for a source that
\* does not parse
parse(code) ==
    LET known == {i \in 1..Len(EvalSources) : EvalSources[i].code = code}
    IN  IF known = {} THEN <<0>> ELSE EvalSources[CHOOSE i \in known : TRUE].body

\* the nested interpreter's own global scope, which its constructor creates
\* outside the scopes of this interpreter
OwnGlobal == ScopeVal(0)

\* new Interpreter(code) followed by `stateStack[0].scope = this.getScope()`;
\* the record keeps no scopes, the nested interpreter works on those of the
\* interpreter that steps it
EvalInterpreter(s, stmts) ==
    Interp(<<[Frame(ProgramNode) EXCEPT !.scope = getScope(s),
                                        !.thisExpression = OwnGlobal]>>,
           <<>>, stmts, UNDEFINED, FALSE, "none", <<>>)

\* stepCallExpression, `else if (state.func_.eval)`
callEval(s) ==
    LET state == s.stateStack[1]
        code == state.arguments[1]
    IN  IF state.arguments = <<>>
        THEN SetTopValue(s, UNDEFINED)
        ELSE IF code.k \in {"object", "function"}
        THEN SetTopValue(s, code)
        ELSE IF parse(toString(code)) = <<0>>
        THEN HostThrow(s, "SyntaxError", "Unexpected token")
        ELSE Unshift(s, [Frame(EvalNode) EXCEPT !.interpreter =
                             <<EvalInterpreter(s, parse(toString(code)))>>])

\* callExec without `this.paused_ = true`
callExec_m(s) ==
    LET state == s.stateStack[1]
        func == state.func_
        s1 == [s EXCEPT !.stateStack[1].doneExec_ = TRUE]
        s2 == createScope(s1, ast[func.n].a, func.p)
        scope == Len(s2.scopes)
        funcState == [Frame(ast[func.n].a) EXCEPT !.scope = scope,
                                                  !.thisExpression = state.funcThis_]
    IN  IF ~state.doneExec_
        THEN CASE func.s = "node" ->
                    Unshift(SetTopValue(SetScopeProperty(s2, scope, "arguments",
                                                         Obj("Array")),
                                        UNDEFINED),
                            funcState)
               [] func.s = "native" ->
                    [SetTopValue(nativeEffect(s1, func, state.arguments),
                                 nativeApply(func, state.funcThis_, state.arguments))
                        EXCEPT !.calls = Append(@, [func |-> func.c,
                                                    args |-> state.arguments])]
               [] func.s = "async" ->
                    [s1 EXCEPT !.promise = "pending"]
               [] func.s = "eval" -> callEval(s1)
               [] OTHER ->
                    HostThrow(s1, "TypeError", "function not a function (huh?)")
        ELSE IF state.isConstructor_ /\ state.value.k # "object"
        THEN SetTopValue(Shift(s), state.funcThis_)
        ELSE SetTopValue(Shift(s), state.value)

\* stepCallExpression, `if (!state.doneExec_) ... else ...`: dispatch on the
\* body kind of func_, or hand the result to the parent frame
callExec(s) ==
    LET state == s.stateStack[1]
        func == state.func_
        s1 == [s EXCEPT !.stateStack[1].doneExec_ = TRUE]
        s2 == createScope(s1, ast[func.n].a, func.p)
        scope == Len(s2.scopes)
        funcState == [Frame(ast[func.n].a) EXCEPT !.scope = scope,
                                                  !.thisExpression = state.funcThis_]
    IN  IF ~state.doneExec_
        THEN CASE func.s = "node" ->
                    Unshift(SetTopValue(SetScopeProperty(s2, scope, "arguments",
                                                         Obj("Array")),
                                        UNDEFINED),
                            funcState)
               [] func.s = "native" ->
                    [SetTopValue(nativeEffect(s1, func, state.arguments),
                                 nativeApply(func, state.funcThis_, state.arguments))
                        EXCEPT !.calls = Append(@, [func |-> func.c,
                                                    args |-> state.arguments])]
               [] func.s = "async" ->
                    [s1 EXCEPT !.promise = "pending", !.paused_ = TRUE]
               [] func.s = "eval" -> callEval(s1)
               [] OTHER ->
                    HostThrow(s1, "TypeError", "function not a function (huh?)")
        ELSE IF state.isConstructor_ /\ state.value.k # "object"
        THEN SetTopValue(Shift(s), state.funcThis_)
        ELSE SetTopValue(Shift(s), state.value)

\* callArgs with `state.arguments.unshift(state.value)` for push
callArgs_m(s) ==
    LET state == s.stateStack[1]
        args == ast[state.node].kids
        s1 == [s EXCEPT !.stateStack[1].arguments =
                            IF state.n_ # 0 THEN <<state.value>> \o @ ELSE @]
    IN  IF ~state.doneArgs_ /\ state.n_ < Len(args)
        THEN Unshift([s1 EXCEPT !.stateStack[1].n_ = @ + 1], Frame(args[state.n_ + 1]))
        ELSE callExec(IF state.doneArgs_ THEN s
                      ELSE [s1 EXCEPT !.stateStack[1].doneArgs_ = TRUE])

\* stepCallExpression, `if (!state.doneArgs_)`: one argument per step, then on
\* to the execution in the same step
callArgs(s) ==
    LET state == s.stateStack[1]
        args == ast[state.node].kids
        s1 == [s EXCEPT !.stateStack[1].arguments =
                            IF state.n_ # 0 THEN Append(@, state.value) ELSE @]
    IN  IF ~state.doneArgs_ /\ state.n_ < Len(args)
        THEN Unshift([s1 EXCEPT !.stateStack[1].n_ = @ + 1], Frame(args[state.n_ + 1]))
        ELSE callExec(IF state.doneArgs_ THEN s
                      ELSE [s1 EXCEPT !.stateStack[1].doneArgs_ = TRUE])

\* callResolve asking for the object of the member expression before
\* boundThis_
callResolve_m(s, func) ==
    LET state == s.stateStack[1]
        isNew == TypeOf(state) = "NewExpression"
    IN  [s EXCEPT !.stateStack[1].func_ = func,
                  !.stateStack[1].member_ =
                      IF state.valueObject # <<>> THEN state.valueObject[1] ELSE @,
                  !.stateStack[1].funcThis_ =
                      IF isNew THEN Obj(func.c)
                      ELSE IF state.valueObject # <<>> THEN state.valueObject[1]
                      ELSE IF func.boundThis_ # <<>> THEN func.boundThis_[1]
                      ELSE s.stateStack[Len(s.stateStack)].thisExpression,
                  !.stateStack[1].isConstructor_ = isNew,
                  !.stateStack[1].arguments = func.boundArgs_,
                  !.stateStack[1].n_ = 0]

\* stepCallExpression, `if (!state.func_)`: func_, funcThis_ and arguments
callResolve(s, func) ==
    LET state == s.stateStack[1]
        isNew == TypeOf(state) = "NewExpression"
    IN  [s EXCEPT !.stateStack[1].func_ = func,
                  !.stateStack[1].member_ =
                      IF state.valueObject # <<>> THEN state.valueObject[1] ELSE @,
                  !.stateStack[1].funcThis_ =
                      IF isNew THEN Obj(func.c)
                      ELSE IF func.boundThis_ # <<>> THEN func.boundThis_[1]
                      ELSE IF state.valueObject # <<>> THEN state.valueObject[1]
                      ELSE s.stateStack[Len(s.stateStack)].thisExpression,
                  !.stateStack[1].isConstructor_ = isNew,
                  !.stateStack[1].arguments = func.boundArgs_,
                  !.stateStack[1].n_ = 0]

stepCallExpression(s) ==
    LET state == s.stateStack[1]
        node == ast[state.node]
        r == getValue(s, state)
        isFunction == state.valueObject = <<>> /\ state.value.k = "function"
    IN  IF ~state.doneCallee_
        THEN Unshift([s EXCEPT !.stateStack[1].doneCallee_ = TRUE],
                     [Frame(node.a) EXCEPT !.components = TRUE])
        ELSE IF state.func_ = Absent /\ ~isFunction /\ r.v = Absent
        THEN r.s
        ELSE IF state.func_ = Absent /\ ~isFunction /\ r.v.k # "function"
        THEN throwException(s, TYPE_ERROR,
                            Str((IF state.valueObject # <<>> THEN "undefined"
                                 ELSE state.value.k) \o " is not a function"))
        ELSE callArgs(IF state.func_ # Absent THEN s
                      ELSE callResolve(s, IF isFunction THEN state.value ELSE r.v))

stepNewExpression(s) == stepCallExpression(s)

\* stepForStatement going from init straight to the test's outcome, without
\* the first test
stepForStatement_m(s) ==
    LET state == s.stateStack[1]
        node == ast[state.node]
        s0 == [s EXCEPT !.stateStack[1].isLoop = TRUE]
    IN  CASE state.mode = 0 ->
               LET s1 == [s0 EXCEPT !.stateStack[1].mode = 2]
               IN  IF node.a # 0 THEN Unshift(s1, Frame(node.a)) ELSE s1
          [] state.mode = 1 ->
               LET s1 == [s0 EXCEPT !.stateStack[1].mode = 2]
               IN  IF node.b # 0 THEN Unshift(s1, Frame(node.b)) ELSE s1
          [] state.mode = 2 ->
               LET s1 == [s0 EXCEPT !.stateStack[1].mode = 3]
               IN  IF node.b # 0 /\ state.value # Absent /\ ~toBoolean(state.value)
                   THEN Shift(s1)
                   ELSE Unshift(s1, Frame(node.kids[1]))
          [] OTHER ->
               LET s1 == [s0 EXCEPT !.stateStack[1].mode = 1]
               IN  IF node.c # 0 THEN Unshift(s1, Frame(node.c)) ELSE s1

stepForStatement(s) ==
    LET state == s.stateStack[1]
        node == ast[state.node]
        s0 == [s EXCEPT !.stateStack[1].isLoop = TRUE]
    IN  CASE state.mode = 0 ->
               LET s1 == [s0 EXCEPT !.stateStack[1].mode = 1]
               IN  IF node.a # 0 THEN Unshift(s1, Frame(node.a)) ELSE s1
          [] state.mode = 1 ->
               LET s1 == [s0 EXCEPT !.stateStack[1].mode = 2]
               IN  IF node.b # 0 THEN Unshift(s1, Frame(node.b)) ELSE s1
          [] state.mode = 2 ->
               LET s1 == [s0 EXCEPT !.stateStack[1].mode = 3]
               IN  IF node.b # 0 /\ state.value # Absent /\ ~toBoolean(state.value)
                   THEN Shift(s1)
                   ELSE Unshift(s1, Frame(node.kids[1]))
          [] OTHER ->
               LET s1 == [s0 EXCEPT !.stateStack[1].mode = 1]
               IN  IF node.c # 0 THEN Unshift(s1, Frame(node.c)) ELSE s1

\* utils.comp(a, b) for primitives: 0 when the host finds neither a < b nor
\* a > b, which is so for two equal values and for a number and a string
\* that is no numeral; two different strings are ordered one way or the other
comp(a, b) ==
    CASE a.k = "number" /\ b.k = "number" ->
             IF a.n < b.n THEN -1 ELSE IF a.n > b.n THEN 1 ELSE 0
      [] a.k = "string" /\ b.k = "string" -> IF a.s = b.s THEN 0 ELSE 1
      [] a.k \in {"number", "string", "undefined"}
           /\ b.k \in {"number", "string", "undefined"} -> 0
      [] OTHER -> IF a = b THEN 0 ELSE HostNaN

\* stepSwitchStatement without `state.done = true`: a match is forgotten
\* with the case it was found in
stepSwitchStatement_m(s) ==
    LET state == s.stateStack[1]
        node == ast[state.node]
        s0 == [s EXCEPT !.stateStack[1].isSwitch = TRUE]
        switchValue == IF state.switchValue = Absent THEN state.value
                       ELSE state.switchValue
        s1 == [s0 EXCEPT !.stateStack[1].switchValue = switchValue]
        index == state.index
    IN  IF state.test = "undefined"
        THEN Unshift([s0 EXCEPT !.stateStack[1].test = "true"], Frame(node.a))
        ELSE IF index >= Len(node.kids) THEN Shift(s1)
        ELSE LET currentCase == ast[node.kids[index + 1]]
                 matched == \/ state.done
                            \/ currentCase.a = 0
                            \/ comp(state.value, switchValue) = 0
             IN  IF ~state.done /\ index \notin state.checked /\ currentCase.a # 0
                 THEN Unshift([s1 EXCEPT !.stateStack[1].checked = @ \cup {index}],
                              Frame(currentCase.a))
                 ELSE IF matched /\ state.n < Len(currentCase.kids)
                 THEN Unshift([s1 EXCEPT !.stateStack[1].n = @ + 1],
                              Frame(currentCase.kids[state.n + 1]))
                 ELSE [s1 EXCEPT !.stateStack[1].n = 0,
                                 !.stateStack[1].index = index + 1]

stepSwitchStatement(s) ==
    LET state == s.stateStack[1]
        node == ast[state.node]
        s0 == [s EXCEPT !.stateStack[1].isSwitch = TRUE]
        switchValue == IF state.switchValue = Absent THEN state.value
                       ELSE state.switchValue
        s1 == [s0 EXCEPT !.stateStack[1].switchValue = switchValue]
        index == state.index
    IN  IF state.test = "undefined"
        THEN Unshift([s0 EXCEPT !.stateStack[1].test = "true"], Frame(node.a))
        ELSE IF index >= Len(node.kids) THEN Shift(s1)
        ELSE LET currentCase == ast[node.kids[index + 1]]
                 matched == \/ state.done
                            \/ currentCase.a = 0
                            \/ comp(state.value, switchValue) = 0
             IN  IF ~state.done /\ index \notin state.checked /\ currentCase.a # 0
                 THEN Unshift([s1 EXCEPT !.stateStack[1].checked = @ \cup {index}],
                              Frame(currentCase.a))
                 ELSE IF matched /\ state.n < Len(currentCase.kids)
                 THEN Unshift([s1 EXCEPT !.stateStack[1].done = TRUE,
                                         !.stateStack[1].n = @ + 1],
                              Frame(currentCase.kids[state.n + 1]))
                 ELSE [s1 EXCEPT !.stateStack[1].done = matched,
                                 !.stateStack[1].n = 0,
                                 !.stateStack[1].index = index + 1]

RECURSIVE step(_)
\* stepEval_: one step() of the nested interpreter, which works on the
\* scopes of this one; what it throws leaves the step() of this one too
stepEval_(s) ==
    LET state == s.stateStack[1]
        inner == [state.interpreter[1] EXCEPT !.scopes = s.scopes, !.calls = s.calls]
        r == step(inner)
        kept == [r.s EXCEPT !.scopes = <<>>, !.calls = <<>>, !.exc = NoExc,
                            !.thrown = Absent, !.pushed = <<>>, !.log = <<>>]
        s1 == [s EXCEPT !.scopes = r.s.scopes, !.calls = r.s.calls,
                        !.thrown = IF r.s.thrown # Absent THEN r.s.thrown ELSE @,
                        !.stateStack[1].interpreter = <<kept>>]
    IN  IF r.ret = "throw" THEN [s1 EXCEPT !.exc = r.s.exc]
        ELSE IF r.ret = "false"
        THEN SetTopValue(Shift(s1), IF r.s.value = Absent THEN UNDEFINED ELSE r.s.value)
        ELSE s1

(***************************************************************************)
(* step() and run().  The result is the interpreter after the call and     *)
(* what the call did: ret is "true", "false" or "throw" (a host exception, *)
(* kept in s.exc, left the call).                                          *)
(***************************************************************************)
Dispatch(s) ==
    LET type == TypeOf(s.stateStack[1])
    IN  CASE type = "AssignmentExpression" -> stepAssignmentExpression(s)
          [] type = "BlockStatement" -> stepBlockStatement(s)
          [] type = "BreakStatement" -> stepBreakStatement(s)
          [] type = "CallExpression" -> stepCallExpression(s)
          [] type = "CatchClause" -> stepCatchClause(s)
          [] type = "ContinueStatement" -> stepContinueStatement(s)
          [] type = "Eval_" -> stepEval_(s)
          [] type = "ExpressionStatement" -> stepExpressionStatement(s)
          [] type = "ForStatement" -> stepForStatement(s)
          [] type = "FunctionDeclaration" -> stepFunctionDeclaration(s)
          [] type = "Identifier" -> stepIdentifier(s)
          [] type = "LabeledStatement" -> stepLabeledStatement(s)
          [] type = "Literal" -> stepLiteral(s)
          [] type = "MemberExpression" -> stepMemberExpression(s)
          [] type = "ThisExpression" -> stepThisExpression(s)
          [] type = "NewExpression" -> stepNewExpression(s)
          [] type = "Program" -> stepProgram(s)
          [] type = "SwitchStatement" -> stepSwitchStatement(s)
          [] type = "ReturnStatement" -> stepReturnStatement(s)
          [] type = "ThrowStatement" -> stepThrowStatement(s)
          [] type = "TryStatement" -> stepTryStatement(s)
          [] type = "VariableDeclaration" -> stepVariableDeclaration(s)
          [] type = "VariableDeclarator" -> stepVariableDeclarator(s)
          [] type = "WhileStatement" -> stepWhileStatement(s)
          [] OTHER -> HostThrow(s, "Error", "invalid node: " \o type)

\* the test that opens step(): no frame, or the Program frame on top and done
IsDone(stack) ==
    stack = <<>> \/ (TypeOf(stack[1]) = "Program" /\ stack[1].done)

\* the end of step(), after the switch: s1 is the interpreter the stepper of
\* node left
stepEnd(node, s1) ==
    IF s1.exc # NoExc THEN [s |-> s1, ret |-> "throw"]
    \* `if (!state.node.end) return this.step()`
    ELSE IF ~ast[node].end THEN step(s1)
    ELSE [s |-> s1, ret |-> "true"]

\* step() without the test of paused_
step_p(s) ==
    IF IsDone(s.stateStack) THEN [s |-> s, ret |-> "false"]
    ELSE stepEnd(s.stateStack[1].node, Dispatch(s))

step(s) ==
    IF IsDone(s.stateStack) THEN [s |-> s, ret |-> "false"]
    ELSE IF s.paused_ THEN [s |-> s, ret |-> "true"]
    ELSE stepEnd(s.stateStack[1].node, Dispatch(s))

\* run() with `if` for `while`: one step(), then `return this.paused_`
run_m(s) ==
    IF s.paused_ THEN [s |-> s, ret |-> "true"]
    ELSE LET r == step(s)
         IN  IF r.ret = "throw" THEN r
             ELSE [s |-> r.s, ret |-> IF r.s.paused_ THEN "true" ELSE "false"]

RECURSIVE run(_)
\* run() after a step() that returned r: the loop goes on while step()
\* returns true, and `return this.paused_` ends it
runEnd(r) ==
    IF r.ret = "throw" THEN r
    ELSE IF r.ret = "true" THEN run(r.s)
    ELSE [s |-> r.s, ret |-> IF r.s.paused_ THEN "true" ELSE "false"]

\* `while (!this.paused_ && this.step()) {}`
run(s) ==
    IF s.paused_ THEN [s |-> s, ret |-> "true"]
    ELSE runEnd(step(s))

(***************************************************************************)
(* appendCode and the continuations of the promise of an async native.     *)
(***************************************************************************)
\* appendCode testing the top frame, stateStack[0], instead of the bottom one
appendCode_m(s, code) ==
    LET last == Len(s.stateStack)
    IN  IF s.stateStack = <<>> \/ TypeOf(s.stateStack[1]) # "Program"
        THEN HostThrow(s, "Error", "Expecting original AST to start with a Program node.")
        ELSE IF ~code.program
        THEN HostThrow(s, "Error", "Expecting new AST to start with a Program node.")
        ELSE [populateScope_(s, code.body, s.stateStack[last].scope)
                EXCEPT !.body = @ \o code.body,
                       !.stateStack[last].done = FALSE]

\* appendCode(code): code.program tells whether code is a Program node
appendCode(s, code) ==
    LET last == Len(s.stateStack)
    IN  IF s.stateStack = <<>> \/ TypeOf(s.stateStack[last]) # "Program"
        THEN HostThrow(s, "Error", "Expecting original AST to start with a Program node.")
        ELSE IF ~code.program
        THEN HostThrow(s, "Error", "Expecting new AST to start with a Program node.")
        ELSE [populateScope_(s, code.body, s.stateStack[last].scope)
                EXCEPT !.body = @ \o code.body,
                       !.stateStack[last].done = FALSE]

\* the fulfilment continuation without `|| this.UNDEFINED`
fulfilled_m(s, v) ==
    [s EXCEPT !.paused_ = FALSE,
              !.promise = "none",
              !.stateStack = WithValue(@, v)]

\* `value => { this.paused_ = false; state.value = value || this.UNDEFINED; }`
\* state is the frame of the suspended call, the top frame; v is Absent for a
\* falsy host value
fulfilled(s, v) ==
    [s EXCEPT !.paused_ = FALSE,
              !.promise = "none",
              !.stateStack = WithValue(@, IF v = Absent THEN UNDEFINED ELSE v)]

\* `error => { this.paused_ = false; this.throwException(this.ERROR, error.message); }`
\* message is Str(error.message), or Absent when the reason has no message
rejected(s, message) ==
    throwException([s EXCEPT !.paused_ = FALSE, !.promise = "none"], ERROR, message)

\* what the host's promises settle with
FulfilValues == {Num(10), Absent}

RejectMessages == {Str("x"), Absent}

(***************************************************************************)
(* Data objects (JsObject) and their properties.  Property names are       *)
(* strings; keys is the set of names `in` properties, and properties[name] *)
(* is Absent for a key that holds the host's null or undefined.  A host    *)
(* number is an integer or HostNaN.                                        *)
(***************************************************************************)

PropNames == {"0", "1", "2", "3", "4", "5", "n", "length", "NaN"}

\* Number(name) for the property names, then utils.arrayIndex
arrayIndexOfName(name) ==
    CASE name = "0" -> 0 [] name = "1" -> 1 [] name = "2" -> 2
      [] name = "3" -> 3 [] name = "4" -> 4 [] name = "5" -> 5
      [] OTHER -> HostNaN

\* utils.arrayIndex(n) for a number
arrayIndex(n) == IF n = HostNaN \/ n < 0 THEN HostNaN ELSE n

\* i.toString(), the name of the property i ("n": outside the model, never
\* an index)
IndexName(i) ==
    CASE i = HostNaN -> "NaN" [] i = 0 -> "0" [] i = 1 -> "1" [] i = 2 -> "2" [] i = 3 -> "3"
      [] i = 4 -> "4" [] i = 5 -> "5" [] OTHER -> "n"

\* a < b and Math.max(a, b) of the host, with NaN
HostLess(a, b) == a # HostNaN /\ b # HostNaN /\ a < b

HostMax(a, b) == IF a = HostNaN \/ b = HostNaN THEN HostNaN ELSE IF a < b THEN b ELSE a

\* new JsObject(parent), and createObject(ARRAY) with its length 0
JsObject(class) ==
    [class |-> class, keys |-> {}, properties |-> [nm \in PropNames |-> Absent],
     getter |-> [nm \in PropNames |-> Absent],
     setter |-> [nm \in PropNames |-> Absent],
     notConfigurable |-> {}, notEnumerable |-> {}, notWritable |-> {},
     preventExtensions |-> FALSE, length |-> 0]

\* obj.properties[name] = value
Put(o, name, v) ==
    [o EXCEPT !.keys = @ \cup {name}, !.properties[name] = v]

\* delete obj.properties[name]
Remove(o, name) ==
    [o EXCEPT !.keys = @ \ {name}, !.properties[name] = Absent]

\* !obj.properties[name]: no such key, or a null or undefined under it
Falsy(o, name) == name \notin o.keys \/ o.properties[name] = Absent

(***************************************************************************)
(* A native operation in progress: the object, the TryStatement frames     *)
(* with a handler on the stack (tries), the classes of the errors thrown   *)
(* so far, whether a host exception has ended the operation (aborted) and  *)
(* whether it has returned (done), with ret what it returned.              *)
(***************************************************************************)
Ctx(o, tries) ==
    [obj |-> o, tries |-> tries, thrown |-> <<>>, aborted |-> FALSE,
     done |-> FALSE, ret |-> Absent]

\* the rest of the code does not run
Over(c) == c.aborted \/ c.done

\* this.throwException(errorClass, message): with a handler on the stack the
\* frames down to it are replaced and the call returns; without one the host
\* gets the error
throwIn(c, errorClass) ==
    IF c.tries > 0
    THEN [c EXCEPT !.tries = @ - 1, !.thrown = Append(@, errorClass)]
    ELSE [c EXCEPT !.thrown = Append(@, errorClass), !.aborted = TRUE]

\* an exception of the host itself (a TypeError on null.toNumber())
hostThrowIn(c, errorClass) ==
    [c EXCEPT !.thrown = Append(@, "host " \o errorClass), !.aborted = TRUE]

\* return value
returnIn(c, v) == [c EXCEPT !.done = TRUE, !.ret = v]

(***************************************************************************)
(* Property descriptors of the host: configurable and enumerable are       *)
(* tested for truth only; writable is "true", "false" or "undefined"; get  *)
(* and set are functions or Absent.                                        *)
(***************************************************************************)
Descriptor(configurable, enumerable, writable, get, set) ==
    [configurable |-> configurable, enumerable |-> enumerable,
     writable |-> writable, get |-> get, set |-> set, given |-> TRUE]

\* no opt_descriptor
NoDescriptor ==
    [configurable |-> FALSE, enumerable |-> FALSE, writable |-> "undefined",
     get |-> Absent, set |-> Absent, given |-> FALSE]

(***************************************************************************)
(* setProperty(obj, name, value, opt_descriptor), in the order of its      *)
(* code.  A throwException that a handler catches returns, and the code    *)
(* after it runs: only `return` and a host exception end the operation.    *)
(* value is Absent for the host's null.                                    *)
(***************************************************************************)
\* if (opt_descriptor && obj.notConfigurable[name]) throwException(TYPE_ERROR)
setRedefine_m(c, name, d) ==
    IF d.given /\ name \in c.obj.notConfigurable /\ ~d.configurable
    THEN throwIn(c, "TypeError")
    ELSE c

setRedefine(c, name, d) ==
    IF d.given /\ name \in c.obj.notConfigurable
    THEN throwIn(c, "TypeError")
    ELSE c

\* accessors together with a value or a writable attribute
setInvalid(c, val, d) ==
    IF Over(c) THEN c
    ELSE IF /\ d.given
            /\ (d.get # Absent \/ d.set # Absent)
            /\ (val # Absent \/ d.writable # "undefined")
         THEN throwIn(c, "TypeError")
         ELSE c

\* name == 'length' of an array: the elements from the new length on are
\* deleted when it is smaller, and the length is stored
setLength(c, val) ==
    IF val = Absent THEN hostThrowIn(c, "TypeError")
    ELSE LET newLength == arrayIndex(toNumber(val))
             c1 == IF newLength = HostNaN
                   THEN throwIn(c, "RangeError") ELSE c
             o == c.obj
             gone == IF HostLess(newLength, o.length)
                     THEN {nm \in o.keys :
                              /\ arrayIndexOfName(nm) # HostNaN
                              /\ ~HostLess(arrayIndexOfName(nm), newLength)}
                     ELSE {}
         IN  IF c1.aborted THEN c1
             ELSE returnIn(
                    [c1 EXCEPT !.obj =
                       [o EXCEPT
                          !.keys = @ \ gone,
                          !.properties =
                              [nm \in PropNames |->
                                  IF nm \in gone THEN Absent ELSE @[nm]],
                          !.length = newLength]],
                    Absent)

\* the array branch: the magic length, and an index that raises it
setArray(c, name, val) ==
    IF Over(c) \/ c.obj.class # "Array" THEN c
    ELSE IF name = "length" THEN setLength(c, val)
    ELSE IF arrayIndexOfName(name) # HostNaN
         THEN [c EXCEPT !.obj.length =
                          HostMax(@, HostPlus(arrayIndexOfName(name), 1))]
         ELSE c

\* if (!obj.properties[name] && obj.preventExtensions)
setExtensible(c, name, strict) ==
    IF Over(c) THEN c
    ELSE IF Falsy(c.obj, name) /\ c.obj.preventExtensions
         THEN LET c1 == IF strict THEN throwIn(c, "TypeError") ELSE c
              IN  IF c1.aborted THEN c1 ELSE returnIn(c1, Absent)
         ELSE c

\* if (opt_descriptor) { define the property }
setDefine(o, name, val, d) ==
    LET accessor == d.get # Absent \/ d.set # Absent
    IN  [o EXCEPT
           !.keys = @ \cup {name},
           !.properties[name] = IF accessor THEN UNDEFINED ELSE val,
           !.notConfigurable = IF d.configurable THEN @ ELSE @ \cup {name},
           !.getter[name] = d.get,
           !.setter[name] = d.set,
           !.notEnumerable = IF d.enumerable THEN @ \ {name} ELSE @ \cup {name},
           !.notWritable = IF accessor \/ d.writable = "true"
                           THEN @ \ {name} ELSE @ \cup {name}]

\* else { set the property }: a setter is returned to the caller, otherwise
\* the value is stored unless the property is not writable
setAssign(c, name, val) ==
    IF c.obj.setter[name] # Absent THEN returnIn(c, c.obj.setter[name])
    ELSE IF name \in c.obj.notWritable THEN returnIn(c, Absent)
    ELSE returnIn([c EXCEPT !.obj = Put(@, name, val)], Absent)

setStore(c, name, val, d) ==
    IF Over(c) THEN c
    ELSE IF d.given
         THEN returnIn([c EXCEPT !.obj = setDefine(@, name, val, d)], Absent)
         ELSE setAssign(c, name, val)

setProperty(c, name, val, d, strict) ==
    setStore(
        setExtensible(
            setArray(setInvalid(setRedefine(c, name, d), val, d), name, val),
            name, strict),
        name, val, d)

\* getProperty(obj, name) for an object or an array, with flags the functions
\* whose isGetter is set: a getter of the name is flagged and returned.  The
\* prototypes of the object hold none of the names.
getProperty(o, name, flags) ==
    IF o.class = "Array" /\ name = "length"
    THEN [value |-> Num(o.length), isGetter |-> flags]
    ELSE IF name \in o.keys
    THEN IF o.getter[name] # Absent
         THEN [value |-> o.getter[name], isGetter |-> flags \cup {o.getter[name]}]
         ELSE [value |-> o.properties[name], isGetter |-> flags]
    ELSE [value |-> UNDEFINED, isGetter |-> flags]

\* deleteProperty(obj, name): the returned boolean is ret = Num(1) or Num(0)
deleteProperty(c, name) ==
    IF name \in c.obj.notWritable THEN returnIn(c, Num(0))
    ELSE IF name = "length" /\ c.obj.class = "Array" THEN returnIn(c, Num(0))
    ELSE returnIn([c EXCEPT !.obj = Remove(@, name)], Num(1))

\* Array.prototype.push(val), with one argument
push(c, val) ==
    returnIn([c EXCEPT !.obj = [Put(@, IndexName(@.length), val) EXCEPT
                                   !.length = HostPlus(@, 1)]],
             Num(HostPlus(c.obj.length, 1)))

\* Array.prototype.pop(): a length of 0 or NaN is falsy
pop(c) ==
    IF c.obj.length # 0 /\ c.obj.length # HostNaN
    THEN returnIn([c EXCEPT !.obj =
                      [Remove(@, IndexName(@.length - 1)) EXCEPT
                          !.length = @ - 1]],
                  c.obj.properties[IndexName(c.obj.length - 1)])
    ELSE returnIn(c, UNDEFINED)

(***************************************************************************)
(* Object.defineProperty(obj, prop, descriptor): dv is the descriptor's    *)
(* value property (UNDEFINED without one), d its other properties turned   *)
(* into a host descriptor; isObject is false for a descriptor that is no   *)
(* JsObject.                                                               *)
(***************************************************************************)
defineProperty(c, prop, isObject, dv, d, strict) ==
    IF ~isObject
    THEN LET c1 == throwIn(c, "TypeError")
         IN  IF c1.aborted THEN c1 ELSE returnIn(c1, Absent)
    ELSE IF Falsy(c.obj, prop) /\ c.obj.preventExtensions
    THEN LET c1 == throwIn(c, "TypeError")
         IN  IF c1.aborted THEN c1 ELSE returnIn(c1, Absent)
    ELSE LET c1 == setProperty(c, prop, IF dv = UNDEFINED THEN Absent ELSE dv,
                               d, strict)
         IN  IF c1.aborted THEN c1
             ELSE [c1 EXCEPT !.done = TRUE, !.ret = Obj(c.obj.class)]

(***************************************************************************)
(* The heap: a sequence of objects, an object being known by its place in  *)
(* it.  parent is the constructor of the object (0: null) and prototype    *)
(* what its property `prototype` holds (0: no such property).              *)
(***************************************************************************)
HeapObject(parent, prototype) == [parent |-> parent, prototype |-> prototype]

\* initFunction and initObject: FUNCTION, its prototype, OBJECT and its
\* prototype
FUNCTION == 1

OBJECT == 3

BaseHeap ==
    << HeapObject(0, 2), HeapObject(0, 0),
       HeapObject(FUNCTION, 4), HeapObject(0, 0) >>

NoRet == [op |-> "none", args |-> <<>>, value |-> ""]

RECURSIVE isaWalk(_, _, _, _)
\* the loop of utils.isa; "loop" when it does not end, which it is known to
\* do after as many rounds as there are objects
isaWalk(h, child, parent, rounds) ==
    IF h[child].parent = parent THEN "true"
    ELSE IF h[child].parent = 0 \/ h[h[child].parent].prototype = 0 THEN "false"
    ELSE IF rounds = 0 THEN "loop"
    ELSE isaWalk(h, h[h[child].parent].prototype, parent, rounds - 1)

\* utils.isa(child, parent)
isa(h, child, parent) ==
    IF child = 0 \/ parent = 0 THEN "false"
    ELSE isaWalk(h, child, parent, Len(h))

\* the loop of getProperty and hasProperty for a name that no object of the
\* chain has: from an object to the prototype of its parent, until there is
\* none; "loop" when it does not end
RECURSIVE protoWalk(_, _, _)
protoWalk(h, o, rounds) ==
    IF h[o].parent = 0 \/ h[h[o].parent].prototype = 0 THEN "undefined"
    ELSE IF rounds = 0 THEN "loop"
    ELSE protoWalk(h, h[h[o].parent].prototype, rounds - 1)

\* createObject(parent): a function gets a prototype object of its own
createObject(h, parent) ==
    IF isa(Append(h, HeapObject(parent, 0)), Len(h) + 1, FUNCTION) = "true"
    THEN h \o <<HeapObject(parent, Len(h) + 2), HeapObject(OBJECT, 0)>>
    ELSE Append(h, HeapObject(parent, 0))

(***************************************************************************)
(* Host values: t is what typeof and instanceof Array tell of the value, n *)
(* the number (HostNaN, HostNegZero for -0, 1 and 0 for true and false), s *)
(* the string, items the elements of an array and props the own properties *)
(* of a plain object, as key and value pairs.                              *)
(***************************************************************************)
HostNegZero == -2000

HostValue(t, n, str, items, props) ==
    [t |-> t, n |-> n, s |-> str, items |-> items, props |-> props]

HostNumber(n) == HostValue("number", n, "", <<>>, {})

HostString(str) == HostValue("string", 0, str, <<>>, {})

HostBoolean(b) == HostValue("boolean", IF b THEN 1 ELSE 0, "", <<>>, {})

HostUndefined == HostValue("undefined", 0, "", <<>>, {})

HostNull == HostValue("null", 0, "", <<>>, {})

HostArray(items) == HostValue("array", 0, "", items, {})

HostObject(props) == HostValue("object", 0, "", <<>>, props)

\* a === b for primitive host values: NaN equals nothing, -0 equals 0
StrictEquals(a, b) ==
    IF a.t = "number" /\ b.t = "number"
    THEN /\ a.n # HostNaN /\ b.n # HostNaN
         /\ (IF a.n = HostNegZero THEN 0 ELSE a.n)
              = (IF b.n = HostNegZero THEN 0 ELSE b.n)
    ELSE a = b

\* the primitives the constructor predefines, by their data: UNDEFINED, NULL,
\* NAN, TRUE, FALSE, NUMBER_ZERO, NUMBER_ONE, STRING_EMPTY
Predefined ==
    << HostUndefined, HostNull, HostNumber(HostNaN), HostBoolean(TRUE),
       HostBoolean(FALSE), HostNumber(0), HostNumber(1), HostString("") >>

\* createPrimitive(data) on a heap of primitives h, each known by its place:
\* the predefined primitive whose payload the chain of === tests finds (NAN
\* is not among the tests), or a new Primitive
createPrimitive(h, data) ==
    LET reused == {i \in {1, 2, 4, 5, 6, 7, 8} : StrictEquals(data, h[i])}
    IN  IF reused # {}
        THEN [heap |-> h, ref |-> CHOOSE i \in reused : TRUE]
        ELSE [heap |-> Append(h, data), ref |-> Len(h) + 1]

\* the Primitive createPrimitive(data) returns, as a pseudo value
Primitive(data) ==
    [class |-> "Primitive",
     data |-> createPrimitive(Predefined, data).heap[createPrimitive(Predefined, data).ref]]

RECURSIVE nativeToPseudo(_)
RECURSIVE nativeItems(_, _, _)
RECURSIVE nativeProps(_, _)
\* the loop over an array: setProperty(pseudoObj, i, nativeToPseudo(nativeObj[i]))
nativeItems(o, items, i) ==
    IF i > Len(items) THEN o
    ELSE nativeItems(setProperty(Ctx(o, 0), IndexName(i - 1),
                                 nativeToPseudo(items[i]), NoDescriptor, FALSE).obj,
                     items, i + 1)

\* the loop over the keys of an object
nativeProps(o, props) ==
    IF props = {} THEN o
    ELSE LET p == CHOOSE q \in props : TRUE
         IN  nativeProps(setProperty(Ctx(o, 0), p.key, nativeToPseudo(p.val),
                                     NoDescriptor, FALSE).obj,
                         props \ {p})

nativeToPseudo(nativeObj) ==
    CASE nativeObj.t = "array" -> nativeItems(JsObject("Array"), nativeObj.items, 1)
      [] nativeObj.t = "object" -> nativeProps(JsObject("Object"), nativeObj.props)
      [] OTHER -> Primitive(nativeObj)

RECURSIVE pseudoToNative(_)
pseudoToNative(pseudoObj) ==
    CASE pseudoObj.class = "Primitive" -> pseudoObj.data
      [] pseudoObj.class = "Array" ->
            HostArray([i \in 1..pseudoObj.length |->
                          pseudoToNative(pseudoObj.properties[IndexName(i - 1)])])
      [] OTHER ->
            HostObject({[key |-> k, val |-> pseudoToNative(pseudoObj.properties[k])] :
                           k \in pseudoObj.keys})

(***************************************************************************)
(* The state machine: the host calls step(), run() and appendCode() in any *)
(* order, and a pending promise settles between two calls.                 *)
(***************************************************************************)
\* initGlobalScope and the host's initFunc: Error, the async native af and
\* the native nf
GlobalScope(strict) ==
    [Scope(0, strict) EXCEPT !.properties =
        [nm \in Names |-> CASE nm = "Error" -> ERROR
                            [] nm = "af" -> AsyncFn("af")
                            [] nm = "nf" -> NativeFn("nf")
                            [] nm = "eval" -> EvalFn
                            [] nm = "Object" -> OBJECT_FN
                            [] OTHER -> Absent]]

\* the interpreter the constructor leaves, for a program
Constructed(prog) ==
    populateScope_(Interp(<<ProgramFrame(prog.node)>>,
                          <<GlobalScope(StartsStrict(prog.body))>>,
                          prog.body, UNDEFINED, FALSE, "none", <<>>),
                   prog.body, 1)

Cur == Interp(stateStack, scopes, body, value, paused_, promise, log)

TopType(stack) == IF stack = <<>> THEN "" ELSE TypeOf(stack[1])

HasTry(stack) == \E i \in 1..Len(stack) : IsTryWithHandler(stack[i])

\* the interpreter's variables after an operation that left s
InstallInterp(s) ==
    /\ ast' = ast
    /\ stateStack' = s.stateStack
    /\ scopes' = s.scopes
    /\ body' = s.body
    /\ value' = s.value
    /\ paused_' = s.paused_
    /\ promise' = s.promise
    /\ log' = s.log
    /\ lastExc' = s.exc
    /\ lastThrown' = s.thrown
    /\ calls' = calls \o s.calls

\* the same, for the operations that keep no trace
Install(s) ==
    /\ InstallInterp(s)
    /\ UNCHANGED <<obj, objOp, sealed, isGetter, trace, heap, ret>>

\* the history of the interpreter at the call
Pre ==
    /\ preDone' = IsDone(stateStack)
    /\ prePaused' = paused_
    /\ preTop' = TopType(stateStack)
    /\ preTry' = HasTry(stateStack)

NoCode == [program |-> FALSE, body |-> <<>>]

\* no property operation yet
NoObjOp ==
    [op |-> "new", name |-> "", thrown |-> <<>>, given |-> FALSE,
     configurable |-> FALSE]

\* the state after new Interpreter(code) for a program of progs
CreatedAs(nodes, s) ==
    /\ ast = nodes
    /\ stateStack = s.stateStack
    /\ scopes = s.scopes
    /\ body = s.body
    /\ value = s.value
    /\ paused_ = s.paused_
    /\ promise = s.promise
    /\ log = s.log
    /\ lastOp = "new"
    /\ lastRet = "ok"
    /\ lastExc = NoExc
    /\ lastVal = Absent
    /\ lastCode = NoCode
    /\ lastThrown = Absent
    /\ preDone = FALSE
    /\ prePaused = FALSE
    /\ preTop = ""
    /\ preTry = FALSE
    /\ ranToEnd = FALSE
    /\ appended = 0
    /\ calls = <<>>
    /\ trace = <<>>

CreatedFrom(nodes, progs) == \E prog \in progs : CreatedAs(nodes, Constructed(prog))

Created(progs) == CreatedFrom(AST, progs)

\* no property operation has run
ObjIdle ==
    /\ obj = JsObject("Object")
    /\ objOp = NoObjOp
    /\ sealed = {}
    /\ isGetter = {}

\* no operation on the heap has run
HeapIdle ==
    /\ heap = BaseHeap
    /\ ret = NoRet

Init ==
    /\ Created(Programs)
    /\ ObjIdle
    /\ HeapIdle

\* the host has called op, which left r.s and returned r.ret
Returned(op, r) ==
    /\ Install(r.s)
    /\ Pre
    /\ lastOp' = op
    /\ lastRet' = r.ret
    /\ lastVal' = Absent
    /\ lastCode' = NoCode

HostStep ==
    /\ Len(scopes) <= MaxScopes
    /\ Returned("step", step(Cur))
    /\ UNCHANGED <<ranToEnd, appended>>

HostRun ==
    /\ Len(scopes) <= MaxScopes
    /\ Returned("run", run(Cur))
    /\ ranToEnd' = (ranToEnd \/ lastRet' = "false")
    /\ UNCHANGED appended

HostAppendCode ==
    \E code \in AppendCodes :
        LET s == appendCode(Cur, code)
        IN  /\ appended < MaxAppend
            /\ Install(s)
            /\ Pre
            /\ lastOp' = "append"
            /\ lastRet' = IF s.exc = NoExc THEN "ok" ELSE "throw"
            /\ lastVal' = Absent
            /\ lastCode' = code
            /\ ranToEnd' = (ranToEnd /\ s.exc # NoExc)
            /\ appended' = IF s.exc = NoExc THEN appended + 1 ELSE appended

Fulfil ==
    \E v \in FulfilValues :
        /\ promise = "pending"
        /\ Install(fulfilled(Cur, v))
        /\ Pre
        /\ lastOp' = "fulfil"
        /\ lastRet' = "ok"
        /\ lastVal' = v
        /\ lastCode' = NoCode
        /\ UNCHANGED <<ranToEnd, appended>>

Reject ==
    \E message \in RejectMessages :
        LET s == rejected(Cur, message)
        IN  /\ promise = "pending"
            /\ Install(s)
            /\ Pre
            /\ lastOp' = "reject"
            /\ lastRet' = IF s.exc = NoExc THEN "ok" ELSE "throw"
            /\ lastVal' = message
            /\ lastCode' = NoCode
            /\ UNCHANGED <<ranToEnd, appended>>

Next == HostStep \/ HostRun \/ HostAppendCode \/ Fulfil \/ Reject

Spec == Init /\ [][Next]_vars

(***************************************************************************)
(* The control-flow programs, stepped by the host to their end; trace      *)
(* keeps the nodes whose frames were pushed.                               *)
(***************************************************************************)
CtlReturned(op, r) ==
    /\ InstallInterp(r.s)
    /\ trace' = trace \o r.s.pushed
    /\ Pre
    /\ lastOp' = op
    /\ lastRet' = r.ret
    /\ lastVal' = Absent
    /\ lastCode' = NoCode
    /\ UNCHANGED <<ranToEnd, appended, obj, objOp, sealed, isGetter, heap, ret>>

CtlStep == CtlReturned("step", step(Cur))

\* the object the host hands to the programs as `o`: the one after the
\* global scope in the arena
GivenObject == 2

\* an initFunc of the host: interpreter.setProperty(scope, 'o',
\* interpreter.createObject(interpreter.OBJECT)), run by the constructor
\* when it creates the global scope
initFunc(s) ==
    [s EXCEPT !.scopes = [@ EXCEPT ![1].properties["o"] = ScopeVal(GivenObject)]
                            \o <<Scope(0, FALSE)>>]

InitCtl ==
    /\ \E prog \in CtlPrograms :
          CreatedAs(AST \o CtlNodes, initFunc(Constructed(prog)))
    /\ ObjIdle
    /\ HeapIdle

NextCtl == CtlStep

SpecCtl == InitCtl /\ [][NextCtl]_vars

(***************************************************************************)
(* The programs about properties, accessors and hoisting, stepped by the   *)
(* host.  Its initFunc gives them three objects: o, a, which has a setter  *)
(* for x, and c, whose constructor has a for prototype.                    *)
(***************************************************************************)
AccessorObject == 3

ChildObject == 4

\* an initFunc of the host: a = createObject(OBJECT) with
\* setProperty(a, 'x', null, {set: createNativeFunction(..)}), and
\* c = createObject(F) for a native function F whose property prototype is a
initProp(s) ==
    LET s1 == initFunc(s)
    IN  [s1 EXCEPT !.scopes =
            [@ EXCEPT ![1].properties["a"] = ScopeVal(AccessorObject),
                      ![1].properties["c"] = ScopeVal(ChildObject)]
              \o << [Scope(0, FALSE) EXCEPT !.properties["x"] = UNDEFINED,
                                            !.setter = ("x" :> NativeFn("set"))],
                    [Scope(0, FALSE) EXCEPT !.proto = AccessorObject] >>]

InitProp ==
    /\ \E prog \in PropPrograms :
          CreatedAs(AST \o CtlNodes \o PropNodes, initProp(Constructed(prog)))
    /\ ObjIdle
    /\ HeapIdle

SpecProp == InitProp /\ [][NextCtl]_vars

(***************************************************************************)
(* Programs with declarations, stepped by the host, which appends code     *)
(* with declarations to them.                                              *)
(***************************************************************************)
AppendVarCode ==
    \E code \in VarCodes :
        LET s == appendCode(Cur, code)
        IN  /\ appended < MaxAppend
            /\ Install(s)
            /\ Pre
            /\ lastOp' = "append"
            /\ lastRet' = IF s.exc = NoExc THEN "ok" ELSE "throw"
            /\ lastVal' = Absent
            /\ lastCode' = code
            /\ ranToEnd' = ranToEnd
            /\ appended' = IF s.exc = NoExc THEN appended + 1 ELSE appended

InitAppend ==
    /\ \E prog \in AppendPrograms :
          CreatedAs(AST \o CtlNodes \o PropNodes \o AppendNodes, Constructed(prog))
    /\ ObjIdle
    /\ HeapIdle

NextAppend == CtlStep \/ AppendVarCode

SpecAppend == InitAppend /\ [][NextAppend]_vars

(***************************************************************************)
(* The property operations of a program on one data object, a plain object *)
(* or an array: each action is one operation of the interpreted program,   *)
(* run with tries TryStatement handlers around it in a scope that is       *)
(* strict or not.                                                          *)
(***************************************************************************)
MaxLen == 3

Classes == {"Object", "Array"}

\* the names the operations are applied to
IndexNames == {IndexName(i) : i \in 0..(MaxLen - 1)}

NamesOf(o) == IF o.class = "Array" THEN IndexNames \cup {"length"} ELSE {"n", "0"}

DefineNames(o) == IF o.class = "Array" THEN {"length"} ELSE {"n", "0"}

\* the values assigned: an element, or for the length of an array the
\* lengths of the program and -1
AssignValues(o, name) ==
    IF o.class = "Array" /\ name = "length"
    THEN {Num(i) : i \in 0..MaxLen} \cup {Num(-1)}
    ELSE {Num(7)}

\* the descriptor arguments of Object.defineProperty: { configurable: false },
\* a data property, a getter, a setter, accessors with a value,
\* { value: 2, configurable: false }, and a number for a descriptor
DescriptorArgs ==
    { [isObject |-> TRUE, dv |-> UNDEFINED,
       d |-> Descriptor(FALSE, FALSE, "undefined", Absent, Absent)],
      [isObject |-> TRUE, dv |-> Num(7),
       d |-> Descriptor(TRUE, TRUE, "true", Absent, Absent)],
      [isObject |-> TRUE, dv |-> UNDEFINED,
       d |-> Descriptor(TRUE, FALSE, "undefined", NativeFn("get"), Absent)],
      [isObject |-> TRUE, dv |-> UNDEFINED,
       d |-> Descriptor(FALSE, FALSE, "undefined", Absent, NativeFn("set"))],
      [isObject |-> TRUE, dv |-> Num(7),
       d |-> Descriptor(TRUE, FALSE, "undefined", NativeFn("get"), Absent)],
      [isObject |-> TRUE, dv |-> Num(2),
       d |-> Descriptor(FALSE, FALSE, "undefined", Absent, Absent)],
      [isObject |-> FALSE, dv |-> UNDEFINED,
       d |-> Descriptor(FALSE, FALSE, "undefined", Absent, Absent)] }

InterpUnchanged ==
    UNCHANGED <<ast, stateStack, scopes, body, value, paused_, promise, log,
                lastOp, lastRet, lastExc, lastVal, lastCode, lastThrown,
                preDone, prePaused, preTop, preTry, ranToEnd, appended, calls,
                trace>>

\* the operation op on the property name has left c
ObjReturned(op, name, c, d) ==
    /\ obj' = c.obj
    /\ objOp' = [op |-> op, name |-> name, thrown |-> c.thrown,
                 given |-> d.given, configurable |-> d.configurable]
    /\ sealed' = IF /\ op = "defineProperty" /\ d.given /\ ~d.configurable
                    /\ c.thrown = <<>> /\ ~c.aborted
                 THEN sealed \cup {name} ELSE sealed
    /\ InterpUnchanged
    /\ UNCHANGED <<isGetter, heap, ret>>

\* Object.defineProperty(obj, name, descriptor)
ObjDefine ==
    \E name \in DefineNames(obj), a \in DescriptorArgs, tries \in 0..1,
       strict \in BOOLEAN :
        ObjReturned("defineProperty", name,
                    defineProperty(Ctx(obj, tries), name, a.isObject, a.dv,
                                   a.d, strict),
                    IF a.isObject THEN a.d ELSE NoDescriptor)

\* obj[name] = val
ObjAssign ==
    \E name \in NamesOf(obj), tries \in 0..1, strict \in BOOLEAN :
      \E val \in AssignValues(obj, name) :
        ObjReturned("assign", name,
                    setProperty(Ctx(obj, tries), name, val, NoDescriptor, strict),
                    NoDescriptor)

\* delete obj[name]
ObjDelete ==
    \E name \in NamesOf(obj) :
        ObjReturned("delete", name, deleteProperty(Ctx(obj, 0), name),
                    NoDescriptor)

\* Object.preventExtensions(obj)
ObjPreventExtensions ==
    /\ ~obj.preventExtensions
    /\ ObjReturned("preventExtensions", "",
                   returnIn([Ctx(obj, 0) EXCEPT !.obj.preventExtensions = TRUE],
                            Obj(obj.class)),
                   NoDescriptor)

\* obj.push(7), for an array below the model's greatest length
ObjPush ==
    /\ obj.class = "Array"
    /\ obj.length < MaxLen
    /\ ObjReturned("push", "", push(Ctx(obj, 0), Num(7)), NoDescriptor)

\* obj.pop()
ObjPop ==
    /\ obj.class = "Array"
    /\ ObjReturned("pop", "", pop(Ctx(obj, 0)), NoDescriptor)

\* a lookup of obj[name] that leaves the flags of r, the object as it was
ObjLooked(op, name, flags) ==
    /\ isGetter' = flags
    /\ objOp' = [op |-> op, name |-> name, thrown |-> <<>>, given |-> FALSE,
                 configurable |-> FALSE]
    /\ InterpUnchanged
    /\ UNCHANGED <<obj, sealed, heap, ret>>

\* obj[name] read for its value: stepMemberExpression clears the flag of
\* what getProperty returned and calls it when it was set
ObjRead ==
    \E name \in DefineNames(obj) :
        LET r == getProperty(obj, name, isGetter)
        IN  ObjLooked("read", name, r.isGetter \ {r.value})

\* typeof obj[name]: stepUnaryExpression takes the type of what getProperty
\* returned
ObjTypeof ==
    \E name \in DefineNames(obj) :
        ObjLooked("typeof", name, getProperty(obj, name, isGetter).isGetter)

\* obj[name](): stepCallExpression takes what getValue returned for func_
ObjCallee ==
    \E name \in DefineNames(obj) :
        ObjLooked("callee", name, getProperty(obj, name, isGetter).isGetter)

InitObj ==
    /\ Created({[node |-> EmptyProgramNode, body |-> <<>>]})
    /\ obj \in {JsObject(class) : class \in Classes}
    /\ objOp = NoObjOp
    /\ sealed = {}
    /\ isGetter = {}
    /\ HeapIdle

NextObj ==
    \/ ObjDefine \/ ObjAssign \/ ObjDelete \/ ObjPreventExtensions
    \/ ObjPush \/ ObjPop
    \/ ObjRead \/ ObjTypeof \/ ObjCallee

SpecObj == InitObj /\ [][NextObj]_vars

(***************************************************************************)
(* The operations of a program that make and test prototype chains.        *)
(***************************************************************************)
MaxObjects == 9

\* the functions of the heap
Functions(h) == {f \in 1..Len(h) : isa(h, f, FUNCTION) = "true"}

\* the objects a program has made with new and as prototypes of its functions
Instances(h) == {o \in 1..Len(h) : h[o].parent \notin {0, FUNCTION}}

HeapReturned(op, args, v) ==
    /\ ret' = [op |-> op, args |-> args, value |-> v]
    /\ InterpUnchanged
    /\ UNCHANGED <<obj, objOp, sealed, isGetter>>

\* function F() {}: createFunction
HeapFunction ==
    /\ Len(heap) + 2 <= MaxObjects
    /\ heap' = createObject(heap, FUNCTION)
    /\ HeapReturned("function", <<>>, "")

\* new F(): the object made for `this`
HeapNew ==
    \E f \in Functions(heap) \ {FUNCTION} :
        /\ Len(heap) + 1 <= MaxObjects
        /\ isa(heap, f, FUNCTION) = "true"
        /\ heap' = createObject(heap, f)
        /\ HeapReturned("new", <<f>>, "")

\* F.prototype = o
HeapSetPrototype ==
    \E f \in Functions(heap) \ {FUNCTION, OBJECT}, o \in Instances(heap) :
        /\ heap' = [heap EXCEPT ![f].prototype = o]
        /\ HeapReturned("prototype", <<f, o>>, "")

\* a instanceof F, for a function F
HeapInstanceof ==
    \E a \in Instances(heap), f \in Functions(heap) \ {FUNCTION} :
        /\ heap' = heap
        /\ HeapReturned("instanceof", <<a, f>>, isa(heap, a, f))

\* a.m, for a name m that no object has
HeapRead ==
    \E a \in Instances(heap) :
        /\ heap' = heap
        /\ HeapReturned("read", <<a>>, protoWalk(heap, a, Len(heap)))

InitIsa ==
    /\ Created({[node |-> EmptyProgramNode, body |-> <<>>]})
    /\ ObjIdle
    /\ HeapIdle

NextIsa ==
    \/ HeapFunction \/ HeapNew \/ HeapSetPrototype \/ HeapInstanceof
    \/ HeapRead

SpecIsa == InitIsa /\ [][NextIsa]_vars

(***************************************************************************)
(* The conversions between host values and interpreter values, applied to  *)
(* JSON-style host values.                                                 *)
(***************************************************************************)
MaxItems == 2

MaxPrimitives == 10

\* the primitive host values of the model
Leaves ==
    { HostUndefined, HostNull, HostBoolean(TRUE), HostBoolean(FALSE),
      HostNumber(0), HostNumber(1), HostNumber(5), HostNumber(HostNegZero),
      HostNumber(HostNaN), HostString(""), HostString("a") }

\* the sequences over S of at most n elements
SeqsUpTo(S, n) == UNION {[1..k -> S] : k \in 0..n}

\* arrays and plain objects of primitives
Flat ==
    {HostArray(items) : items \in SeqsUpTo(Leaves \ {HostBoolean(FALSE), HostNumber(1)}, MaxItems)}
      \cup {HostObject({[key |-> "n", val |-> v]}) : v \in Leaves}
      \cup {HostObject({[key |-> "n", val |-> v], [key |-> "0", val |-> w]}) :
                v \in {HostNumber(5), HostNull}, w \in Leaves}

\* JSON-style values: primitives, arrays and objects of them, and arrays and
\* objects of those
JsonValues ==
    Leaves \cup Flat
      \cup {HostArray(<<v>>) : v \in Flat}
      \cup {HostObject({[key |-> "n", val |-> v]}) : v \in Flat}

\* pseudoToNative(nativeToPseudo(x)) for the value the state holds
ConvRoundTrip ==
    /\ ret.op \in {"none", "createPrimitive"}
    /\ ret' = [op |-> "roundtrip", args |-> ret.args,
               value |-> pseudoToNative(nativeToPseudo(ret.args[1]))]
    /\ heap' = heap
    /\ InterpUnchanged
    /\ UNCHANGED <<obj, objOp, sealed, isGetter>>

\* createPrimitive(data)
ConvCreatePrimitive ==
    \E data \in Leaves :
        /\ Len(heap) < MaxPrimitives
        /\ heap' = createPrimitive(heap, data).heap
        /\ ret' = [op |-> "createPrimitive", args |-> <<data>>,
                   value |-> HostNumber(createPrimitive(heap, data).ref)]
        /\ InterpUnchanged
        /\ UNCHANGED <<obj, objOp, sealed, isGetter>>

InitConv ==
    /\ Created({[node |-> EmptyProgramNode, body |-> <<>>]})
    /\ ObjIdle
    /\ heap = Predefined
    /\ \E x \in JsonValues : ret = [op |-> "none", args |-> <<x>>, value |-> HostUndefined]

NextConv == ConvRoundTrip \/ ConvCreatePrimitive

SpecConv == InitConv /\ [][NextConv]_vars

\* the shape of the state
TypeOK ==
    /\ paused_ \in BOOLEAN
    /\ promise \in {"none", "pending"}
    /\ lastRet \in {"true", "false", "ok", "throw"}
    /\ Len(log) <= Len(body)

(***************************************************************************)
(* Properties.                                                             *)
(***************************************************************************)
\* a call of step() that dispatches one stepper: the program is not done,
\* the interpreter is not paused and the node on top has an end position
SingleStep ==
    /\ lastOp' = "step"
    /\ ~IsDone(stateStack)
    /\ ~paused_
    /\ ast[stateStack[1].node].end

\* stack2 is what is left of stack after frames have been taken off its top
IsSuffix(stack2, stack) ==
    \E k \in 1..(Len(stack) + 1) : stack2 = SubSeq(stack, k, Len(stack))

\* C1: step() returns false exactly when the program is done at the call (no
\* frame, or the Program frame on top with done set), and true in every other
\* state, paused ones included.
C1_StepFalseIffDone ==
    (lastOp = "step" /\ lastRet # "throw") => (lastRet = "false" <=> preDone)

C3_StepMonotone ==
    [][(ranToEnd /\ lastOp' = "step") =>
          /\ lastRet' = "false"
          /\ stateStack' = stateStack
          /\ value' = value]_vars

\* a step() after run() returned false
C3_Witness ==
    ranToEnd /\ lastOp = "step" /\ lastRet = "false" /\ stateStack # <<>>

\* C4 as stated: appendCode called while the top frame is not the Program
\* frame raises an error and appends nothing.
C4_AppendOnlyOnTop ==
    [][(lastOp' = "append" /\ TopType(stateStack) # "Program") =>
          /\ lastRet' = "throw"
          /\ body' = body]_vars

\* C4 amended: appendCode tests the bottom frame.  Whenever the stack is not
\* empty its bottom frame is the Program frame, and appendCode with a Program
\* appends the statements and clears that frame's done flag, whatever frame is
\* on top; it raises an error and changes nothing when the stack is empty or
\* the new code is not a Program.
C4_AppendOnBottom ==
    [][lastOp' = "append" =>
          /\ stateStack # <<>> => TypeOf(stateStack[Len(stateStack)]) = "Program"
          /\ IF stateStack # <<>> /\ lastCode'.program
             THEN /\ lastRet' = "ok"
                  /\ body' = body \o lastCode'.body
                  /\ stateStack' = [stateStack EXCEPT ![Len(stateStack)].done = FALSE]
             ELSE /\ lastRet' = "throw"
                  /\ UNCHANGED <<stateStack, scopes, body, value, paused_>>]_vars

\* appendCode succeeded with an expression or statement frame on top
C4_Witness ==
    /\ lastOp = "append" /\ lastRet = "ok"
    /\ preTop \notin {"Program", ""}
    /\ Len(body) > Len(log)

\* C5: after the program has completed, appendCode clears the done flag, so
\* that step() returns true again, and the following run() dispatches exactly
\* the appended statements, in order and once, in the same global scope.
C5_AppendResumes ==
    [][(lastOp = "append" /\ lastRet = "ok" /\ preDone) =>
          /\ ~stateStack[Len(stateStack)].done
          /\ lastOp' = "step" => lastRet' = "true"
          /\ (lastOp' = "run" /\ lastRet' = "false") =>
                /\ log' = log \o lastCode.body
                /\ log' = body
                /\ stateStack'[Len(stateStack')].scope = stateStack[Len(stateStack)].scope]_vars

\* C6: an async native call sets paused_ and stays on the stack while run()
\* returns true; the fulfilment clears paused_ and stores the value (UNDEFINED
\* if falsy) in the call frame; the next step pops the call and hands the
\* value to the parent frame, and the next run() goes on to completion, or to
\* the next async native call.
C6_AsyncResume ==
    [][/\ promise' = "pending" =>
            /\ paused_'
            /\ stateStack' # <<>>
            /\ IsCallFrame(stateStack'[1])
            /\ stateStack'[1].doneExec_
            /\ stateStack'[1].func_.s = "async"
            /\ lastOp' = "run" => lastRet' = "true"
       /\ lastOp' = "fulfil" =>
            /\ ~paused_'
            /\ stateStack' = [stateStack EXCEPT ![1].value =
                                 IF lastVal' = Absent THEN UNDEFINED ELSE lastVal']
       /\ (lastOp = "fulfil" /\ lastOp' = "step") =>
            /\ lastRet' = "true"
            /\ stateStack' = [Tail(stateStack) EXCEPT ![1].value = stateStack[1].value]
       /\ (lastOp = "fulfil" /\ lastOp' = "run") =>
            \/ lastRet' = "false" /\ IsDone(stateStack') /\ log' = body'
            \/ lastRet' = "true" /\ promise' = "pending" /\ Len(log') > Len(log)
            \/ lastRet' = "throw"]_vars

\* x = af(); x; has run to completion with the fulfilled value 10 in x
C6_Witness ==
    /\ lastOp = "run" /\ lastRet = "false"
    /\ scopes[1].properties["x"] = Num(10)
    /\ value = Num(10)

\* C7: a rejection clears paused_ and throws an ERROR instance carrying the
\* reason's message at the suspended call; with a TryStatement frame that has
\* a handler on the stack, the handler's frame is installed with that error.
C7_RejectThrowsErrorInstance ==
    lastOp = "reject" =>
        /\ ~paused_
        /\ lastThrown.k = "object"
        /\ lastThrown.c = "Error"
        /\ lastVal # Absent => lastThrown.s = lastVal.s
        /\ preTry =>
              /\ stateStack # <<>>
              /\ TypeOf(stateStack[1]) = "CatchClause"
              /\ stateStack[1].throwValue = lastThrown

\* the nearest frame of a TryStatement that has a handler
NearestTry(stack) ==
    CHOOSE i \in 1..Len(stack) :
        /\ IsTryWithHandler(stack[i])
        /\ \A j \in 1..(i - 1) : ~IsTryWithHandler(stack[j])

\* C8: an interpreter-level throw replaces the frames down to and including
\* the nearest TryStatement frame that has a handler by the frame of that
\* handler's CatchClause, carrying the thrown value, and leaves the frames
\* below as they were; the step of the CatchClause frame binds the parameter
\* to the thrown value in a new child of the current scope and pushes the
\* catch body with it.
C8_ThrowInstallsCatch ==
    [][/\ ((SingleStep \/ lastOp' = "reject") /\ lastThrown' # Absent /\ HasTry(stateStack)) =>
            LET i == NearestTry(stateStack)
            IN  /\ stateStack' =
                      <<[Frame(ast[stateStack[i].node].b) EXCEPT !.throwValue = lastThrown']>>
                        \o SubSeq(stateStack, i + 1, Len(stateStack))
                /\ lastRet' # "throw"
       /\ (SingleStep /\ TopType(stateStack) = "ThrowStatement" /\ stateStack[1].argument) =>
            lastThrown' = stateStack[1].value
       /\ (SingleStep /\ TopType(stateStack) = "CatchClause" /\ ~stateStack[1].doneBody) =>
            LET param == ast[stateStack[1].node].name
                new == Len(scopes) + 1
            IN  /\ Len(scopes') = new
                /\ SubSeq(scopes', 1, Len(scopes)) = scopes
                /\ scopes'[new].parentScope = getScope(Cur)
                /\ scopes'[new].properties =
                      [nm \in Names |-> IF nm = param THEN stateStack[1].throwValue ELSE Absent]
                /\ stateStack'[1].node = ast[stateStack[1].node].a
                /\ stateStack'[1].scope = new
                /\ Tail(stateStack') = [stateStack EXCEPT ![1].doneBody = TRUE]]_vars

\* C9: an uncaught interpreter-level throw reaches the host as an error of the
\* type its name property names, with its message, when the value is a
\* pseudo-Error, and as a host Error of the stringified value otherwise.
C9_UncaughtReraised ==
    (lastRet = "throw" /\ lastThrown # Absent) =>
        IF isaError(lastThrown)
        THEN lastExc = Exc(IF lastThrown.c \in ErrorSubclasses THEN lastThrown.c ELSE "Error",
                           lastThrown.s)
        ELSE lastExc = Exc("Error", toString(lastThrown))

\* a frame below the break frame that the break may leave through
BreakTarget(stack, label, i) ==
    /\ IF label # "" THEN stack[i].label = label
       ELSE stack[i].isLoop \/ stack[i].isSwitch
    /\ \A j \in 2..i : ~IsCallFrame(stack[j])

ContinueTarget(stack, label, i) ==
    /\ stack[i].isLoop
    /\ label = "" \/ stack[i].label = label
    /\ \A j \in 2..i : ~IsCallFrame(stack[j])

\* the host exception of a statement the parser should have refused: nothing
\* is thrown inside the interpreter, frames are only taken off the stack
HostSyntaxError(msg) ==
    /\ lastRet' = "throw"
    /\ lastExc' = Exc("SyntaxError", msg)
    /\ lastThrown' = Absent
    /\ IsSuffix(stateStack', stateStack)
    /\ UNCHANGED <<scopes, value>>

\* the handler catch (e) { 10; } of the try statements around the break,
\* continue and return statements
GuardHandler == 37

\* C10: break and continue without a target and return outside a call raise
\* a host exception out of step(), and no catch handler ever runs for them.
C10_HostLevelSyntaxErrors ==
    [][/\ SingleStep =>
            LET label == ast[stateStack[1].node].name
                below == 2..Len(stateStack)
            IN  /\ (/\ TopType(stateStack) = "BreakStatement"
                    /\ \A i \in below : ~BreakTarget(stateStack, label, i))
                      => HostSyntaxError("Illegal break statement")
                /\ (/\ TopType(stateStack) = "ContinueStatement"
                    /\ \A i \in below : ~ContinueTarget(stateStack, label, i))
                      => HostSyntaxError("Illegal continue statement")
                /\ (/\ TopType(stateStack) = "ReturnStatement"
                    /\ ast[stateStack[1].node].a = 0 \/ stateStack[1].done
                    /\ \A i \in below : ~IsCallFrame(stateStack[i]))
                      => HostSyntaxError("Illegal return statement")
       /\ \A i \in 1..Len(stateStack') : stateStack'[i].node # GuardHandler]_vars

\* break with no target, inside a try block that has a handler, has raised
\* the host's SyntaxError
C10_Witness ==
    /\ lastOp = "step" /\ lastRet = "throw" /\ preTry
    /\ preTop = "BreakStatement"
    /\ lastExc = Exc("SyntaxError", "Illegal break statement")

\* the step that applies a host-native function: the call frame on top has
\* not executed before the step and has after it
NativeExecStep ==
    /\ SingleStep
    /\ IsCallFrame(stateStack[1])
    /\ ~stateStack[1].doneExec_
    /\ lastRet' = "true"
    /\ Len(stateStack') = Len(stateStack)
    /\ stateStack'[1].doneExec_
    /\ stateStack'[1].func_.s = "native"

\* the values of the argument expressions of a call node, in source order
\* (the arguments of these programs are literals)
LiteralArgs(node) == [i \in 1..Len(ast[node].kids) |-> ast[ast[node].kids[i]].val]

\* C11: the step that dispatches a call of a host-native function applies the
\* function once, to the evaluated arguments in order, and stores what it
\* returns in the call frame; no other step applies a native; the next step
\* hands that value to the parent frame as the value of the call expression.
C11_NativeCalledOnce ==
    [][/\ NativeExecStep =>
            LET f == stateStack'[1]
            IN  /\ calls' = Append(calls, [func |-> f.func_.c,
                                           args |-> LiteralArgs(f.node)])
                /\ f.func_.c = "nf" => f.value = Num(10)
                /\ f.value = nativeApply(f.func_, f.funcThis_, LiteralArgs(f.node))
       /\ (SingleStep /\ ~NativeExecStep) => calls' = calls
       /\ lastOp' \in {"append", "fulfil", "reject"} => calls' = calls
       /\ (/\ SingleStep
           /\ IsCallFrame(stateStack[1])
           /\ stateStack[1].doneExec_
           /\ stateStack[1].func_.c = "nf") =>
            stateStack' = [Tail(stateStack) EXCEPT ![1].value = stateStack[1].value]
       /\ (lastOp' = "run" /\ lastRet' = "false" /\ calls = <<>> /\ body = <<81>>) =>
            /\ calls' \in {<<>>, <<[func |-> "nf", args |-> <<Num(5), Num(10)>>]>>}
            /\ log' = <<81>> => (Len(calls') = 1 /\ value' = Num(10))]_vars

\* nf(5, 10); has run to completion: nf was applied once, to 5 and 10, and
\* its result is the value of the statement
C11_Witness ==
    /\ IsDone(stateStack) /\ stateStack # <<>>
    /\ body = <<81>>
    /\ calls = <<[func |-> "nf", args |-> <<Num(5), Num(10)>>]>>
    /\ value = Num(10)

\* an Object.defineProperty of a name that an earlier defineProperty with
\* configurable false has defined without throwing
Redefine ==
    /\ objOp'.op = "defineProperty"
    /\ objOp'.name \in sealed

Threw(op, errorClass) == \E i \in 1..Len(op.thrown) : op.thrown[i] = errorClass

C13_LengthCoversIndexes ==
    obj.class = "Array" =>
        \A nm \in obj.keys :
            arrayIndexOfName(nm) # HostNaN =>
                HostLess(arrayIndexOfName(nm), obj.length)

\* C20: a name with a getter or a setter on the object holds UNDEFINED in
\* properties and is not marked notWritable.
C20_AccessorNotData ==
    \A nm \in PropNames :
        (obj.getter[nm] # Absent \/ obj.setter[nm] # Absent) =>
            /\ nm \in obj.keys
            /\ obj.properties[nm] = UNDEFINED
            /\ nm \notin obj.notWritable

\* no scope of the chain from the current scope binds name
Unbound(name) == FindBinding(getScope(Cur), scopes, name) = 0

\* the step has thrown an instance of ReferenceError
ReferenceErrorThrown ==
    lastThrown'.k = "object" /\ lastThrown'.c = "ReferenceError"

\* the step that evaluates an Identifier for its value
ReadStep ==
    /\ SingleStep
    /\ TopType(stateStack) = "Identifier"
    /\ ~stateStack[1].components

\* the step of an assignment to an Identifier that stores the value
WriteStep ==
    /\ SingleStep
    /\ TopType(stateStack) = "AssignmentExpression"
    /\ stateStack[1].doneLeft /\ stateStack[1].doneRight
    /\ ast[ast[stateStack[1].node].a].type = "Identifier"

\* C14: reading a name that no scope of the chain binds throws a
\* ReferenceError; writing to one throws a ReferenceError when the current
\* scope is strict, and otherwise binds the name to the value on the scope
\* without a parent and changes no other scope.
C14_UnboundNames ==
    [][/\ (ReadStep /\ Unbound(ast[stateStack[1].node].name)) =>
            (ReferenceErrorThrown /\ scopes' = scopes)
       /\ (WriteStep /\ Unbound(ast[ast[stateStack[1].node].a].name)) =>
            IF scopes[getScope(Cur)].strict
            THEN ReferenceErrorThrown /\ scopes' = scopes
            ELSE /\ lastThrown' = Absent
                 /\ Len(scopes') = Len(scopes)
                 /\ \A sc \in 1..Len(scopes) :
                       IF scopes[sc].parentScope = 0
                       THEN scopes'[sc] =
                              [scopes[sc] EXCEPT
                                 !.properties[ast[ast[stateStack[1].node].a].name] =
                                     stateStack[1].value]
                       ELSE scopes'[sc] = scopes[sc]]_vars

\* function f() { u = 5; } f(); u; has run: u is 5 on the global scope and
\* unbound on the scope of the call
C14_Witness ==
    /\ body = <<87, 51, 32>>
    /\ IsDone(stateStack) /\ stateStack # <<>>
    /\ Len(scopes) = 2
    /\ scopes[1].properties["u"] = Num(5)
    /\ scopes[2].properties["u"] = Absent
    /\ value = Num(5)

RECURSIVE PrototypeChain(_, _, _)
\* the objects reached from x by x -> x.parent.properties.prototype, in at
\* most rounds steps
PrototypeChain(h, x, rounds) ==
    IF rounds = 0 \/ h[x].parent = 0 \/ h[h[x].parent].prototype = 0 THEN {}
    ELSE {h[h[x].parent].prototype}
           \cup PrototypeChain(h, h[h[x].parent].prototype, rounds - 1)

\* C15: a instanceof F is true exactly when the object in F.prototype is
\* reached from a by following x -> x.parent.properties.prototype.
C15_InstanceofIffPrototypeReachable ==
    ret.op = "instanceof" =>
        (ret.value = "true" <=>
            heap[ret.args[2]].prototype
                \in PrototypeChain(heap, ret.args[1], Len(heap)))

\* C16: pseudoToNative(nativeToPseudo(x)) is x again, for every JSON-style x.
C16_RoundTrip ==
    ret.op = "roundtrip" => ret.value = ret.args[1]

\* C17: each of the payloads undefined, null, true, false, NaN, 0, 1 and ""
\* belongs to one primitive only.
C17_Singletons ==
    \A i, j \in 1..Len(heap) :
        (heap[i] = heap[j] /\ \E k \in 1..Len(Predefined) : heap[i] = Predefined[k])
            => i = j

\* the frames of the stack that are calls in progress
CallFrames(stack) == {i \in 1..Len(stack) : IsCallFrame(stack[i])}

\* the frame on top belongs to no function body, or to one whose call was
\* made from an ExpressionStatement of the program
TopLevelStatement(stack) ==
    \/ CallFrames(stack) = {}
    \/ \E j \in 1..Len(stack) :
          /\ TypeOf(stack[j]) = "ExpressionStatement"
          /\ \A i \in CallFrames(stack) : i < j

\* C18: value is UNDEFINED after construction, and a step changes it only
\* by finishing an ExpressionStatement, to that statement's value; one
\* inside a function body called from a statement that is no
\* ExpressionStatement does not change it.
C18_ValueIsLastTopLevel ==
    [][/\ (lastOp = "new" => value = UNDEFINED)
       /\ (SingleStep /\ value' # value) =>
            /\ TopType(stateStack) = "ExpressionStatement"
            /\ stateStack[1].done
            /\ value' = stateStack[1].value
            /\ TopLevelStatement(stateStack)]_vars

\* C19: when an operation that looked a property up has returned, no
\* function object has isGetter set.
C19_IsGetterCleared == isGetter = {}

\* the three flags of the property name of o
Flags(o, name) ==
    [notConfigurable |-> name \in o.notConfigurable,
     notEnumerable |-> name \in o.notEnumerable,
     notWritable |-> name \in o.notWritable]

\* the descriptor names neither accessor and leaves the three flags out
OmitsFlags(a) ==
    /\ a.isObject
    /\ a.d = Descriptor(FALSE, FALSE, "undefined", Absent, Absent)

\* defineProperty with the flags left out gives a new property the three
\* flags
DefineSetsFlags ==
    \A name \in DefineNames(obj), tries \in 0..1, strict \in BOOLEAN :
      \A a \in {x \in DescriptorArgs : OmitsFlags(x)} :
        LET c == defineProperty(Ctx(obj, tries), name, a.isObject, a.dv, a.d,
                                strict)
        IN  (name \notin obj.keys /\ name \in c.obj.keys) =>
                Flags(c.obj, name) =
                    [notConfigurable |-> TRUE, notEnumerable |-> TRUE,
                     notWritable |-> TRUE]

\* an assignment that creates the property leaves it without any flag
AssignClearsFlags ==
    \A name \in NamesOf(obj), tries \in 0..1, strict \in BOOLEAN :
      \A val \in AssignValues(obj, name) :
        LET c == setProperty(Ctx(obj, tries), name, val, NoDescriptor, strict)
        IN  (name \notin obj.keys /\ name \in c.obj.keys) =>
                Flags(c.obj, name) =
                    [notConfigurable |-> FALSE, notEnumerable |-> FALSE,
                     notWritable |-> FALSE]

\* C21: a property newly defined by defineProperty with a descriptor that
\* leaves out configurable, enumerable and writable has the three flags set,
\* and a property created by an assignment on an object without an own
\* property of the name has the three flags cleared, whatever was done to the
\* name before.
C21_DefaultFlags == DefineSetsFlags /\ AssignClearsFlags

\* the j-th frame of the stack, counted from the bottom
FrameAt(stack, j) == stack[Len(stack) - j + 1]

\* a frame of a try statement with a finalizer whose block was entered and
\* whose finalizer was not
AwaitsFinalizer(f) ==
    /\ TypeOf(f) = "TryStatement"
    /\ ast[f.node].c # 0
    /\ f.doneBlock
    /\ ~f.doneFinalizer

\* C24: whenever control leaves the block of a try statement that has a
\* finalizer, the finalizer is executed: the frame of such a statement does
\* not leave the stack before it has pushed its finalizer, whether the block
\* completed, threw, or a break, continue or return went through it.
C24_FinalizerRuns ==
    [][\A j \in 1..Len(stateStack) :
          AwaitsFinalizer(FrameAt(stateStack, j)) =>
              /\ Len(stateStack') >= j
              /\ FrameAt(stateStack', j).node = FrameAt(stateStack, j).node]_vars

\* the pushes of the for statement F and of its parts, out of the pushes tr
ForEvents(F, tr) ==
    SelectSeq(tr, LAMBDA id : id \in ({F, ast[F].a, ast[F].b, ast[F].c,
                                       ast[F].kids[1]} \ {0}))

RECURSIVE ForOrder(_, _, _)
\* the events follow the order init, then test, body, update again and
\* again (a part that is left out is passed over); phase is the part due
ForOrder(F, evts, phase) ==
    LET part == CASE phase = "init" -> ast[F].a
                  [] phase = "test" -> ast[F].b
                  [] phase = "body" -> ast[F].kids[1]
                  [] OTHER -> ast[F].c
        next == CASE phase = "init" -> "test"
                  [] phase = "test" -> "body"
                  [] phase = "body" -> "update"
                  [] OTHER -> "test"
    IN  IF evts = <<>> THEN TRUE
        ELSE IF Head(evts) = F THEN ForOrder(F, Tail(evts), "init")
        ELSE IF part = 0 THEN ForOrder(F, evts, next)
        ELSE Head(evts) = part /\ ForOrder(F, Tail(evts), next)

\* the for statements among the pushes tr
ForNodes(tr) ==
    {tr[i] : i \in {j \in 1..Len(tr) : ast[tr[j]].type = "ForStatement"}}

\* the step of a for frame that has just had its test evaluated
ForTested ==
    /\ SingleStep
    /\ TopType(stateStack) = "ForStatement"
    /\ stateStack[1].mode = 2
    /\ ast[stateStack[1].node].b # 0

\* C29: a for statement evaluates init once, the test before every execution
\* of the body, the update after every execution of the body (one that a
\* continue ended too) and before the next test; the body runs only when the
\* test was truthy or is left out, and the statement is popped the first
\* time the test is falsy.
C29_ForPhases ==
    [][/\ \A F \in ForNodes(trace') :
            /\ Head(ForEvents(F, trace')) = F
            /\ ForOrder(F, ForEvents(F, trace'), "init")
       /\ ForTested =>
            IF toBoolean(stateStack[1].value)
            THEN /\ Len(stateStack') = Len(stateStack) + 1
                 /\ stateStack'[1].node = ast[stateStack[1].node].kids[1]
            ELSE stateStack' = Tail(stateStack)]_vars

\* a for statement has gone through init, test, body, update and the test
\* that ended it
C29_Witness ==
    \E F \in ForNodes(trace) :
        /\ ForEvents(F, trace) =
               <<F, ast[F].a, ast[F].b, ast[F].kids[1], ast[F].c, ast[F].b>>
        /\ \A i \in 1..Len(stateStack) : stateStack[i].node # F

\* the switch statements among the pushes tr
SwitchNodes(tr) ==
    {tr[i] : i \in {j \in 1..Len(tr) : ast[tr[j]].type = "SwitchStatement"}}

RECURSIVE TestsOf(_)
\* the tests of the cases, in order
TestsOf(cases) ==
    IF cases = <<>> THEN <<>>
    ELSE (IF ast[Head(cases)].a # 0 THEN <<ast[Head(cases)].a>> ELSE <<>>)
            \o TestsOf(Tail(cases))

RECURSIVE ConsequentsOf(_)
\* the consequent statements of the cases, in order
ConsequentsOf(cases) ==
    IF cases = <<>> THEN <<>>
    ELSE ast[Head(cases)].kids \o ConsequentsOf(Tail(cases))

Elements(sq) == {sq[i] : i \in 1..Len(sq)}

Only(tr, S) == SelectSeq(tr, LAMBDA id : id \in S)

\* the consequents cv that ran start with the case m, which is the case of
\* the last test evaluated, or a default reached after nt tests
StartsAt(W, cv, m, nt) ==
    LET cases == ast[W].kids
        before == SubSeq(cases, 1, m - 1)
        offset == Len(ConsequentsOf(before))
    IN  /\ IF ast[cases[m]].a # 0 THEN Len(TestsOf(before)) + 1 = nt
           ELSE Len(TestsOf(before)) = nt
        /\ offset + Len(cv) <= Len(ConsequentsOf(cases))
        /\ cv = SubSeq(ConsequentsOf(cases), offset + 1, offset + Len(cv))

IsJump(id) == ast[id].type \in {"BreakStatement", "ContinueStatement"}

\* the pushes tr of the parts of the switch statement W are in order: the
\* discriminant once, tests in the order of the cases, then consequents from
\* the matching case on, none after a break; left tells that W is off the
\* stack
SwitchOrder(W, tr, left) ==
    LET cases == ast[W].kids
        d == ast[W].a
        tests == TestsOf(cases)
        cons == ConsequentsOf(cases)
        tv == Only(tr, Elements(tests))
        cv == Only(tr, Elements(cons))
    IN  /\ Only(tr, {d} \cup Elements(tests) \cup Elements(cons))
              = <<d>> \o tv \o cv
        /\ Len(tv) <= Len(tests) /\ tv = SubSeq(tests, 1, Len(tv))
        /\ cv # <<>> =>
              /\ \E m \in 1..Len(cases) : StartsAt(W, cv, m, Len(tv))
              /\ \A i \in 1..(Len(cv) - 1) : ~IsJump(cv[i])
              /\ left => IsJump(cv[Len(cv)]) \/ cv[Len(cv)] = cons[Len(cons)]

\* the step of a switch frame whose current case has just had its test
\* evaluated
CaseTested ==
    /\ SingleStep
    /\ TopType(stateStack) = "SwitchStatement"
    /\ ~stateStack[1].done
    /\ stateStack[1].index < Len(ast[stateStack[1].node].kids)
    /\ stateStack[1].index \in stateStack[1].checked

\* C25: in a switch statement the discriminant is evaluated once, the tests
\* of the cases in order, each at most once and none after the first match;
\* from the matching case on the consequents of every case run in order,
\* each statement once, until a break pops the switch or the cases end.
C25_SwitchFallsThrough ==
    [][/\ \A W \in SwitchNodes(trace') :
            LET after == SubSeq(trace', 1 + CHOOSE i \in 1..Len(trace') :
                                                trace'[i] = W, Len(trace'))
            IN  /\ Only(trace', {W}) = <<W>>
                /\ after # <<>> =>
                     SwitchOrder(W, after,
                                 \A i \in 1..Len(stateStack') :
                                     stateStack'[i].node # W)
       /\ CaseTested =>
            LET state == stateStack[1]
                currentCase == ast[ast[state.node].kids[state.index + 1]]
            IN  IF state.value = state.switchValue
                THEN /\ stateStack'[Len(stateStack') - Len(stateStack) + 1].done
                     /\ currentCase.kids # <<>> =>
                            /\ Len(stateStack') = Len(stateStack) + 1
                            /\ stateStack'[1].node = currentCase.kids[1]
                ELSE /\ Len(stateStack') = Len(stateStack)
                     /\ ~stateStack'[1].done
                     /\ stateStack'[1].index = state.index + 1]_vars

\* a switch statement has matched its second case, fallen through to the
\* default and ended
C25_Witness ==
    \E W \in SwitchNodes(trace) :
        LET cases == ast[W].kids
        IN  /\ \A i \in 1..Len(stateStack) : stateStack[i].node # W
            /\ Len(cases) > 2 /\ Len(TestsOf(cases)) >= 2
            /\ Only(trace, Elements(TestsOf(cases))) = SubSeq(TestsOf(cases), 1, 2)
            /\ Only(trace, Elements(ConsequentsOf(cases)))
                  = ConsequentsOf(SubSeq(cases, 2, Len(cases)))

\* the frames from the one under the top down to frame k have no call frame
\* and no target among them
CallFrameFirst(stack, k, IsTarget(_)) ==
    /\ IsCallFrame(stack[k])
    /\ \A j \in 2..(k - 1) : ~IsTarget(j)

\* C26: break takes the frames off up to and including the nearest loop or
\* switch frame, or the frame that carries its label; continue takes the
\* frames off down to the nearest loop frame (that carries its label, if it
\* has one) and leaves that frame on top as it was; when a call frame comes
\* before the target the host gets the SyntaxError instead.
C26_BreakContinueTargets ==
    [][SingleStep =>
        LET stack == stateStack
            label == ast[stack[1].node].name
            below == 2..Len(stack)
            IsBreakTarget(i) == BreakTarget(stack, label, i)
            IsContinueTarget(i) == ContinueTarget(stack, label, i)
        IN  /\ TopType(stack) = "BreakStatement" =>
                 /\ \A i \in below :
                        (IsBreakTarget(i) /\ \A j \in 2..(i - 1) : ~IsBreakTarget(j))
                            => /\ stateStack' = SubSeq(stack, i + 1, Len(stack))
                               /\ lastRet' = "true"
                 /\ \A k \in below :
                        CallFrameFirst(stack, k, IsBreakTarget)
                            => HostSyntaxError("Illegal break statement")
            /\ TopType(stack) = "ContinueStatement" =>
                 /\ \A i \in below :
                        (IsContinueTarget(i) /\ \A j \in 2..(i - 1) : ~IsContinueTarget(j))
                            => /\ stateStack' = SubSeq(stack, i, Len(stack))
                               /\ lastRet' = "true"
                 /\ \A k \in below :
                        CallFrameFirst(stack, k, IsContinueTarget)
                            => HostSyntaxError("Illegal continue statement")]_vars

\* continue L has left the inner loop and the labeled outer loop is on top
C26_Witness ==
    /\ lastOp = "step" /\ lastRet = "true"
    /\ preTop = "ContinueStatement"
    /\ stateStack # <<>>
    /\ stateStack[1].isLoop /\ stateStack[1].label = "L"
    /\ \E i \in 1..Len(trace) : ast[trace[i]].type = "ForStatement"

\* the step of a return statement whose argument, if any, has been evaluated
Returning ==
    /\ SingleStep
    /\ TopType(stateStack) = "ReturnStatement"
    /\ ast[stateStack[1].node].a = 0 \/ stateStack[1].done

\* the step that takes the finished body of a function off the stack: the
\* frame under it is the call of that function
BodyEnds ==
    /\ SingleStep
    /\ TopType(stateStack) = "BlockStatement"
    /\ Len(stateStack) > 1
    /\ IsCallFrame(stateStack[2])
    /\ stateStack[2].func_.s = "node"
    /\ ast[stateStack[2].func_.n].a = stateStack[1].node
    /\ stateStack' = Tail(stateStack)

\* the step of a call frame whose function has been executed
CallCompletes ==
    /\ SingleStep
    /\ IsCallFrame(stateStack[1])
    /\ stateStack[1].doneExec_

\* C27: return takes every frame above the nearest call frame off the stack
\* and writes the value of its argument, UNDEFINED without one, into that
\* frame; a body that ends without return leaves UNDEFINED there; the call
\* expression hands the value of its frame to its parent.
C27_ReturnUnwindsToCall ==
    [][/\ Returning =>
            \A i \in 2..Len(stateStack) :
                (IsCallFrame(stateStack[i]) /\ \A j \in 2..(i - 1) : ~IsCallFrame(stateStack[j]))
                    => stateStack' =
                         WithValue(SubSeq(stateStack, i, Len(stateStack)),
                                   IF ast[stateStack[1].node].a = 0 THEN UNDEFINED
                                   ELSE stateStack[1].value)
       /\ BodyEnds => stateStack'[1].value = UNDEFINED
       /\ (CallCompletes /\ ~stateStack[1].isConstructor_) =>
            stateStack' = WithValue(Tail(stateStack), stateStack[1].value)]_vars

\* `return 7` inside a loop of the function has left the loop and the body,
\* and the call frame on top holds 7
C27_Witness ==
    /\ lastOp = "step" /\ lastRet = "true"
    /\ preTop = "ReturnStatement"
    /\ stateStack # <<>>
    /\ TopType(stateStack) = "CallExpression"
    /\ stateStack[1].value = Num(7)
    /\ \E i \in 1..Len(trace) : ast[trace[i]].type = "WhileStatement"

\* the step that resolves the callee of a new expression
NewResolves ==
    /\ SingleStep
    /\ TopType(stateStack) = "NewExpression"
    /\ stateStack[1].func_ = Absent
    /\ Len(stateStack') >= Len(stateStack)
    /\ FrameAt(stateStack', Len(stateStack)).func_ # Absent

\* C28: the receiver of a new expression is a new object whose parent is the
\* callee, and the expression has the value the callee returned when that is
\* an object (functions are objects), the receiver otherwise.
C28_NewResult ==
    [][/\ NewResolves =>
            LET state == FrameAt(stateStack', Len(stateStack))
            IN  /\ state.funcThis_ = Obj(state.func_.c)
                /\ state.isConstructor_
       /\ (CallCompletes /\ stateStack[1].isConstructor_) =>
            LET state == stateStack[1]
            IN  stateStack' =
                    WithValue(Tail(stateStack),
                              IF state.value.k \in {"object", "function"}
                              THEN state.value ELSE state.funcThis_)]_vars

\* a call of step() while the frame of a nested interpreter is on top
EvalStep ==
    /\ lastOp' = "step"
    /\ ~IsDone(stateStack)
    /\ ~paused_
    /\ TopType(stateStack) = "Eval_"

\* C22: while the code given to eval runs, a call of step() takes the nested
\* interpreter one step of its own further at most: unless it was done, its
\* frame is still there after the call, with its stack as it was or as one
\* step() leaves it.
C22_EvalSingleSteps ==
    [][EvalStep =>
        LET inner == [stateStack[1].interpreter[1] EXCEPT !.scopes = scopes]
        IN  ~IsDone(inner.stateStack) =>
                /\ Len(stateStack') >= Len(stateStack)
                /\ FrameAt(stateStack', Len(stateStack)).node = EvalNode
                /\ FrameAt(stateStack', Len(stateStack)).interpreter[1].stateStack
                      \in {inner.stateStack, step(inner).s.stateStack}]_vars

\* C23: what the code given to eval throws and does not catch goes to the
\* nearest try statement with a handler of the program that called eval; the
\* host gets it only when there is none.
C23_EvalThrowReachesOuterCatch ==
    [][(EvalStep /\ lastRet' = "throw" /\ lastThrown' # Absent)
          => ~HasTry(stateStack)]_vars

\* the step that resolves the callee of a call or new expression
CallResolves ==
    /\ SingleStep
    /\ IsCallFrame(stateStack[1])
    /\ stateStack[1].doneCallee_
    /\ stateStack[1].func_ = Absent
    /\ Len(stateStack') >= Len(stateStack)
    /\ FrameAt(stateStack', Len(stateStack)).func_ # Absent

\* the step that pushes the body of an AST function
BodyPushed ==
    /\ SingleStep
    /\ IsCallFrame(stateStack[1])
    /\ ~stateStack[1].doneExec_
    /\ Len(stateStack') = Len(stateStack) + 1
    /\ stateStack'[2].doneExec_
    /\ stateStack'[2].func_.s = "node"

\* the global scope as a value
GlobalObject == ScopeVal(1)

SetterAssign ==
    /\ stateStack # <<>>
    /\ TypeOf(stateStack[1]) = "AssignmentExpression"
    /\ stateStack[1].doneRight
    /\ stateStack[1].doneSetter_ = Absent
    /\ stateStack[1].leftObject # <<>>
    /\ IsStored(Cur, stateStack[1].leftObject[1])
    /\ FindSetter(scopes, stateStack[1].leftObject[1].n,
                  stateStack[1].leftSide.s) # Absent

\* the frame that calls the setter is on top and has not called it yet
SetterCall ==
    /\ Len(stateStack) > 2
    /\ stateStack[1].node = AccessorNode
    /\ ~stateStack[1].doneExec_
    /\ stateStack[2].doneSetter_ # Absent

\* the step of an assignment to a property with a setter pushes the call of
\* the setter: the target object is its this, the assigned value its only
\* argument
SetterFramePushed ==
    LET f == stateStack[1]
        assigned == assignValue(ast[f.node].name, f.leftValue, f.value)
    IN  stateStack' =
            << AccessorCall(FindSetter(scopes, f.leftObject[1].n, f.leftSide.s),
                            f.leftObject[1], <<assigned>>),
               [f EXCEPT !.doneSetter_ = assigned] >> \o Tail(stateStack)

\* the step of the call runs the setter once and ends the assignment, whose
\* value is the assigned value
SetterRan ==
    /\ calls' = Append(calls, [func |-> stateStack[1].func_.c,
                               args |-> stateStack[1].arguments])
    /\ stateStack' = WithValue(SubSeq(stateStack, 3, Len(stateStack)),
                               stateStack[2].doneSetter_)

\* C31: an assignment, simple or compound, to a property for which the
\* object or its prototype chain has a setter invokes the setter exactly
\* once, through a call frame made for it, with the computed value as the
\* only argument and the target object as this; what the setter returns is
\* dropped and the assignment has the assigned value.
C31_SetterInvokedOnce ==
    [][/\ SetterAssign => (SetterFramePushed /\ calls' = calls)
       /\ SetterCall => SetterRan]_vars

(***************************************************************************)
(* Hoisting (specification SpecProp).                                      *)
(***************************************************************************)
RECURSIVE VarNames(_)
\* the names the statements ids declare with var, nested functions left out
VarNames(ids) ==
    IF ids = <<>> THEN {}
    ELSE LET id == Head(ids)
         IN  (CASE ast[id].type = "VariableDeclaration" ->
                       {ast[d].name : d \in Elements(ast[id].kids)}
                [] ast[id].type \in {"FunctionDeclaration", "FunctionExpression"} -> {}
                [] OTHER -> VarNames(Children(id)))
             \cup VarNames(Tail(ids))

RECURSIVE FunctionDeclarations(_)
\* the function declarations among the statements ids, nested functions
\* left out
FunctionDeclarations(ids) ==
    IF ids = <<>> THEN {}
    ELSE LET id == Head(ids)
         IN  (CASE ast[id].type = "FunctionDeclaration" -> {id}
                [] ast[id].type = "FunctionExpression" -> {}
                [] OTHER -> FunctionDeclarations(Children(id)))
             \cup FunctionDeclarations(Tail(ids))

\* in the arena scs the scope sc binds what the statements ids declare: the
\* declared functions to their function objects, the other var names to
\* UNDEFINED
Hoisted(scs, ids, sc) ==
    /\ \A d \in FunctionDeclarations(ids) :
          scs[sc].properties[ast[d].name] = createFunction(d, sc)
    /\ \A nm \in VarNames(ids) \ {ast[d].name : d \in FunctionDeclarations(ids)} :
          scs[sc].properties[nm] = UNDEFINED

\* the constructor has just returned
Constructing == lastOp = "new"

\* a step that reads, at top level, a name the program declares
DeclaredRead ==
    /\ ReadStep
    /\ getScope(Cur) = 1
    /\ ast[stateStack[1].node].name \in
           VarNames(body) \cup {ast[d].name : d \in FunctionDeclarations(body)}

\* C32: when a program or function scope is created, every name its body
\* declares with var (nested functions apart) is bound to UNDEFINED and
\* every declared function to its function object, so that reading a
\* declared name before its declarator has run gives what the scope holds
\* instead of throwing and a function can be called before its declaration;
\* the step of a FunctionDeclaration only pops its frame.
C32_Hoisting ==
    [][/\ Constructing => Hoisted(scopes, body, 1)
       /\ BodyPushed =>
             Hoisted(scopes', ast[stateStack'[1].node].kids, stateStack'[1].scope)
       /\ DeclaredRead =>
             /\ lastRet' = "true"
             /\ stateStack' =
                   WithValue(Tail(stateStack),
                             scopes[1].properties[ast[stateStack[1].node].name])
       /\ (SingleStep /\ TopType(stateStack) = "FunctionDeclaration") =>
             /\ stateStack' = Tail(stateStack)
             /\ scopes' = scopes
             /\ value' = value]_vars

(***************************************************************************)
(* The Program frame (specification Spec).                                 *)
(***************************************************************************)
\* the bottom frame of the stack is the Program frame with the global scope
ProgramAtBottom(stack) ==
    /\ stack # <<>>
    /\ TypeOf(stack[Len(stack)]) = "Program"
    /\ stack[Len(stack)].scope = 1

\* a block on top all of whose statements have been dispatched
BlockCompleted ==
    /\ SingleStep
    /\ TopType(stateStack) = "BlockStatement"
    /\ stateStack[1].n_ >= Len(ast[stateStack[1].node].kids)

\* C33: whenever step() or run() returns to the host without a host
\* exception, the stack is not empty and its bottom frame is the Program
\* frame, which carries the global scope; the frame of any other block is
\* popped by the step that finds all its statements completed.
C33_ProgramFrameStays ==
    [][/\ (lastOp' \in {"step", "run"} /\ lastRet' # "throw") =>
             ProgramAtBottom(stateStack')
       /\ BlockCompleted => stateStack' = Tail(stateStack)]_vars

(***************************************************************************)
(* Pausing (specification Spec).                                           *)
(***************************************************************************)
\* C34: while paused_ is set, step() and run() return true and leave the
\* stack with every frame's fields, the scopes and the value as they are; a
\* paused interpreter's stack only changes when the promise is settled.
C34_PausedNoOp ==
    [][/\ (paused_ /\ lastOp' \in {"step", "run"}) =>
             /\ lastRet' = "true"
             /\ UNCHANGED <<stateStack, scopes, value, body, paused_, promise>>
       /\ (paused_ /\ stateStack' # stateStack) =>
             lastOp' \in {"fulfil", "reject"}]_vars

\* step() was called on a paused interpreter
C34_Witness == prePaused /\ paused_ /\ lastOp = "step" /\ promise = "pending"

(***************************************************************************)
(* Exceptions inside try statements (specification SpecProp).              *)
(***************************************************************************)
\* a step raises an interpreter-level exception below a try with a handler
ThrowInTry ==
    /\ SingleStep
    /\ lastThrown' # Absent
    /\ HasTry(stateStack)

\* the frame of the nearest handler is on top and carries the thrown value
CatchOnTop ==
    /\ stateStack' =
          <<[Frame(ast[stateStack[NearestTry(stateStack)].node].b)
                EXCEPT !.throwValue = lastThrown']>>
            \o SubSeq(stateStack, NearestTry(stateStack) + 1, Len(stateStack))

\* C35: when a step raises an interpreter-level exception while a
\* TryStatement frame with a handler is on the stack, the handler's
\* CatchClause frame with the thrown value is on top at the end of that
\* step, whichever stepper raised it, and the next step pushes the handler's
\* body, so that it runs before the statements after the try statement.
C35_CatchDelivered ==
    [][/\ ThrowInTry => CatchOnTop
       /\ (SingleStep /\ TopType(stateStack) = "CatchClause"
              /\ ~stateStack[1].doneBody) =>
             /\ Len(stateStack') = Len(stateStack) + 1
             /\ stateStack'[1].node = ast[stateStack[1].node].a
             /\ TypeOf(stateStack'[1]) = "BlockStatement"]_vars

\* a step reads a property of undefined or null below a try with a handler
NullReadInTry ==
    /\ ThrowInTry
    /\ TopType(stateStack) \in {"MemberExpression", "AssignmentExpression"}
    /\ lastThrown'.k = "object"
    /\ lastThrown'.c = "TypeError"
    /\ \E name \in Names, of \in {"undefined", "null"} :
          lastThrown'.s = "Cannot read property '" \o name \o "' of " \o of

\* C36: a read of a property of undefined or null inside a try block with a
\* handler raises an interpreter TypeError that reaches the handler: the
\* step that reads returns normally, raising no host exception, with the
\* handler's CatchClause frame on top.
C36_NullReadCaught ==
    [][NullReadInTry => (CatchOnTop /\ lastRet' = "true" /\ lastExc' = NoExc)]_vars

(***************************************************************************)
(* Rejected property operations (specification SpecObj).                   *)
(***************************************************************************)
\* a defineProperty with a descriptor on a non-configurable name has thrown
\* TypeError
RedefineRejected ==
    /\ objOp'.op = "defineProperty"
    /\ objOp'.given
    /\ objOp'.name \in obj.notConfigurable
    /\ Threw(objOp', "TypeError")

\* C37: a property operation that raises an interpreter exception leaves
\* the object as it was: a defineProperty rejected for a non-configurable
\* name changes neither the value, the accessors nor the flags, and after an
\* operation rejected with RangeError the length of an array is still a
\* non-negative integer.
C37_RejectedLeavesObject ==
    [][/\ RedefineRejected => obj' = obj
       /\ Threw(objOp', "RangeError") => obj'.length \in Nat]_vars

(***************************************************************************)
(* Prototype chains (specification SpecIsa).                               *)
(***************************************************************************)
\* C38: the walks along the prototype chain end for every object graph a
\* program can build: instanceof (utils.isa) and the lookup of a property
\* (getProperty, hasProperty) return an answer.
C38_WalksTerminate ==
    /\ ret.op = "instanceof" => ret.value \in {"true", "false"}
    /\ ret.op = "read" => ret.value = "undefined"

(***************************************************************************)
(* Objects that are not extensible (specification SpecObj).                *)
(***************************************************************************)
\* C39: once Object.preventExtensions has been applied to an object, no
\* operation adds an own property name to it or increases its array length;
\* an assignment that would add one leaves the names as they are, throwing
\* nothing but a TypeError, if anything.
C39_NoGrowth ==
    [][obj.preventExtensions =>
          /\ obj'.keys \subseteq obj.keys
          /\ obj.class = "Array" => ~HostLess(obj.length, obj'.length)
          /\ (objOp'.op = "assign" /\ objOp'.name \notin obj.keys
                 /\ objOp'.name # "length") =>
                \A i \in 1..Len(objOp'.thrown) : objOp'.thrown[i] = "TypeError"]_vars

(***************************************************************************)
(* Appended declarations (specification SpecAppend).                       *)
(***************************************************************************)
\* appendCode has returned without a host exception
Appended == lastOp' = "append" /\ lastRet' = "ok"

\* C40: appendCode itself changes no binding of the global scope that
\* exists: the hoisting of the appended code binds only names that are not
\* bound yet, so a name that holds a value keeps it when the appended code
\* declares it with var.
C40_AppendKeepsBindings ==
    [][Appended =>
          \A name \in Names :
              scopes[1].properties[name] # Absent =>
                  scopes'[1].properties[name] = scopes[1].properties[name]]_vars

====
